---- MODULE Spec2Model ----
(***************************************************************************)
(* Model of the webhook-manager chat logger (src/api/chatlogger.js): the   *)
(* hybrid (identity key + content key) deduplication against a conditional *)
(* store and the sequential forwarding of accepted events to the sink.     *)
(*                                                                         *)
(* Strings are sequences of one-character strings; the JavaScript values   *)
(* null / undefined are the value Null.  Time is counted in seconds of the *)
(* store's clock; a key reserved with "EX ttl" is held for ttl ticks.      *)
(***************************************************************************)
EXTENDS Integers, Sequences, FiniteSets, TLC

VARIABLES
    env,        \* process.env: the deployment's configuration, fixed at start
    store,      \* the conditional store: key -> seconds left before expiry
    age,        \* history: identity -> seconds since it was last reserved
    seen,       \* history: identity -> seconds since a command last named it
    req,        \* one record per request slot: the handler's position and locals
    proc        \* the process serving api/incoming.js: its clock, its map of
                \* texts seen, and the requests it is handling

vars == <<env, store, age, seen, req, proc>>

(***************************************************************************)
(* Bounds of the model.                                                    *)
(***************************************************************************)
\* CHATLOGGER_DEDUPE_TTL_SEC and CHATLOGGER_CONTENT_TTL_SEC as configured
\* (the code's defaults are 60 and 10; any positive values are legal).
IdTtlSec == 3
ContentTtlSec == 2
\* Longest batch of the forwarding specification (13 events: units 6, 6, 1).
MaxAccepted == 13

\* Size of an outbound unit: chunkArray(lines, 6).
ChunkSize == 6
\* Status of the response when the sink reported none.
BadGateway == 502

Reqs == {"r1", "r2"}

(***************************************************************************)
(* Strings.                                                                *)
(***************************************************************************)
Null == <<"NULL">>
EmptyStr == <<>>

toSafeString(v) == IF v = Null THEN EmptyStr ELSE v

IsSpace(c) == c = " "

LowerChar(c) ==
    CASE c = "A" -> "a"
      [] c = "B" -> "b"
      [] c = "H" -> "h"
      [] c = "I" -> "i"
      [] c = "Y" -> "y"
      [] c = "O" -> "o"
      [] OTHER -> c

toLowerCase(s) == [i \in 1..Len(s) |-> LowerChar(s[i])]

RECURSIVE trimStart(_)
trimStart(s) ==
    IF s # <<>> /\ IsSpace(Head(s)) THEN trimStart(Tail(s)) ELSE s

RECURSIVE trimEnd(_)
trimEnd(s) ==
    IF s # <<>> /\ IsSpace(s[Len(s)]) THEN trimEnd(SubSeq(s, 1, Len(s) - 1)) ELSE s

trim(s) == trimEnd(trimStart(s))

\* s.replace(/\s+/g, " "): every run of whitespace becomes one space.
RECURSIVE collapseWhitespace(_)
collapseWhitespace(s) ==
    IF s = <<>> THEN <<>>
    ELSE IF IsSpace(Head(s))
         THEN <<" ">> \o collapseWhitespace(trimStart(s))
         ELSE <<Head(s)>> \o collapseWhitespace(Tail(s))

normalizeForSig(s) == collapseWhitespace(trim(toLowerCase(toSafeString(s))))

RECURSIVE join(_, _)
join(parts, sep) ==
    IF parts = <<>> THEN <<>>
    ELSE IF Len(parts) = 1 THEN parts[1]
    ELSE parts[1] \o sep \o join(Tail(parts), sep)

IsDigit(c) == c \in {"0", "1", "2", "3", "4", "5", "6", "7", "8", "9"}

\* A fraction cut to three digits and not padded.
msDigitsNoPad(frac) == SubSeq(frac, 1, IF Len(frac) < 3 THEN Len(frac) ELSE 3)

\* frac.slice(0, 3).padEnd(3, "0")
msDigits(frac) ==
    LET cut == SubSeq(frac, 1, IF Len(frac) < 3 THEN Len(frac) ELSE 3)
    IN  cut \o [i \in 1..(3 - Len(cut)) |-> "0"]

\* Where /\.(\d{1,})Z$/ matches in s: at a "." followed by one or more
\* digits, then "Z", then the end of the string.
fractionMatches(s) ==
    {p \in 1..Len(s) :
        /\ s[p] = "."
        /\ s[Len(s)] = "Z"
        /\ p + 1 <= Len(s) - 1
        /\ \A k \in (p + 1)..(Len(s) - 1) : IsDigit(s[k])}

normalizeIsoTimestamp(timestampIso) ==
    LET s == trim(toSafeString(timestampIso))
    IN  IF s = EmptyStr THEN EmptyStr
        ELSE IF fractionMatches(s) = {} THEN s
        ELSE LET p == CHOOSE x \in fractionMatches(s) : \A y \in fractionMatches(s) : x <= y
             IN  SubSeq(s, 1, p) \o msDigits(SubSeq(s, p + 1, Len(s) - 1)) \o <<"Z">>

\* sha1 is taken to be collision-free: the digest is one token that stands
\* for its input (a hex digest holds no separator character).
sha1(input) == <<ToString(input)>>

(***************************************************************************)
(* The dedup engine: dedupeMessagesAtomic.                                 *)
(***************************************************************************)
\* An identity key that leaves the scope out.
idKeyNoScope(scope, m) == <<"dedupe:chatlogger:id:">> \o m.id

idKey(scope, m) == <<"dedupe:chatlogger:id:">> \o scope \o <<":">> \o m.id

\* A signature of the fields as received, not normalized.
contentSigRaw(m) ==
    join(<<toSafeString(m.chatType), toSafeString(m.chatName),
           toSafeString(m.sender), toSafeString(m.message)>>, <<"|">>)

contentSig(m) ==
    join(<<normalizeForSig(m.chatType), normalizeForSig(m.chatName),
           normalizeForSig(m.sender), normalizeForSig(m.message)>>, <<"|">>)

contentKey(scope, m) ==
    <<"dedupe:chatlogger:content:">> \o scope \o <<":">> \o sha1(contentSig(m))

\* The expiry given to each of the two SET commands of an item.
idCommandExShort(idTtl, contentTtl) == contentTtl
idCommandEx(idTtl, contentTtl) == idTtl

contentCommandExLong(idTtl, contentTtl) == idTtl
contentCommandEx(idTtl, contentTtl) == contentTtl

\* The identity keys written by a plain SET, without NX.
pipelineCommandsNoNx(items, scope, idTtl, contentTtl) ==
    [c \in 1..(2 * Len(items)) |->
        IF c % 2 = 1
        THEN [key |-> idKey(scope, items[(c + 1) \div 2]),
              ex  |-> idCommandEx(idTtl, contentTtl), nx |-> FALSE]
        ELSE [key |-> contentKey(scope, items[c \div 2]),
              ex  |-> contentCommandEx(idTtl, contentTtl), nx |-> TRUE]]

\* The content command of an item ahead of its identity command.
pipelineCommandsContentFirst(items, scope, idTtl, contentTtl) ==
    [c \in 1..(2 * Len(items)) |->
        IF c % 2 = 0
        THEN [key |-> idKey(scope, items[c \div 2]),
              ex  |-> idCommandEx(idTtl, contentTtl), nx |-> TRUE]
        ELSE [key |-> contentKey(scope, items[(c + 1) \div 2]),
              ex  |-> contentCommandEx(idTtl, contentTtl), nx |-> TRUE]]

\* The content keys written by a plain SET, without NX.
pipelineCommandsContentNoNx(items, scope, idTtl, contentTtl) ==
    [c \in 1..(2 * Len(items)) |->
        IF c % 2 = 1
        THEN [key |-> idKey(scope, items[(c + 1) \div 2]),
              ex  |-> idCommandEx(idTtl, contentTtl), nx |-> TRUE]
        ELSE [key |-> contentKey(scope, items[c \div 2]),
              ex  |-> contentCommandEx(idTtl, contentTtl), nx |-> FALSE]]

\* commands: for item i, [SET idKey 1 EX idTtl NX] then [SET contentKey 1 EX contentTtl NX].
pipelineCommands(items, scope, idTtl, contentTtl) ==
    [c \in 1..(2 * Len(items)) |->
        IF c % 2 = 1
        THEN [key |-> idKey(scope, items[(c + 1) \div 2]),
              ex  |-> idCommandEx(idTtl, contentTtl), nx |-> TRUE]
        ELSE [key |-> contentKey(scope, items[c \div 2]),
              ex  |-> contentCommandEx(idTtl, contentTtl), nx |-> TRUE]]

\* One pipeline result as the code reads it: {result: "OK"}, {result: null},
\* {error: ...}, or undefined when the reply has no such entry.
ResultAt(results, k) == IF k <= Len(results) THEN results[k] ELSE "UNDEF"

\* const results = Array.isArray(res.data) ? res.data : [];
replyResults(data) == IF data.isArray THEN data.body ELSE <<>>

errored(result) == result = "ERR"

\* Accepting as soon as either key is new.
isDuplicateEither(idResult, contentResult) ==
    ~(idResult = "OK" \/ contentResult = "OK")

\* const isDuplicate = !(idOk && contentOk);
isDuplicate(idResult, contentResult) ==
    ~(idResult = "OK" /\ contentResult = "OK")

\* An errored command counted as a reservation that did not succeed.
itemFlagNoFailOpen(idResult, contentResult) == isDuplicate(idResult, contentResult)

\* The decision of one item from its pair of results.
itemFlag(idResult, contentResult) ==
    IF errored(idResult) \/ errored(contentResult)
    THEN FALSE
    ELSE isDuplicate(idResult, contentResult)

\* Every item decided from the first pair of results.
dupFlagsFirstPair(items, results) ==
    [i \in 1..Len(items) |-> itemFlag(ResultAt(results, 1), ResultAt(results, 2))]

\* The decisions returned in the reverse of the input order.
dupFlagsReversed(items, results) ==
    [i \in 1..Len(items) |->
        itemFlag(ResultAt(results, 2 * (Len(items) - i + 1) - 1),
                 ResultAt(results, 2 * (Len(items) - i + 1)))]

dupFlags(items, results) ==
    [i \in 1..Len(items) |->
        itemFlag(ResultAt(results, 2 * i - 1), ResultAt(results, 2 * i))]

\* Failing closed when the call throws.
failClosedFlags(items) == [i \in 1..Len(items) |-> TRUE]

\* catch (err) { return items.map(() => false); }
failOpenFlags(items) == [i \in 1..Len(items) |-> FALSE]

\* Every event marked duplicate when the store is not configured.
unconfiguredFlagsClosed(items) == [i \in 1..Len(items) |-> TRUE]

\* if (!upstashUrl || !upstashToken) return items.map(() => false);
unconfiguredFlags(items) == [i \in 1..Len(items) |-> FALSE]

(***************************************************************************)
(* The conditional store: SET key 1 EX ttl [NX], atomic per key.           *)
(***************************************************************************)
Held(st, key) == key \in DOMAIN st

setNxResult(st, cmd) == IF cmd.nx /\ Held(st, cmd.key) THEN "NIL" ELSE "OK"

setNxStore(st, cmd) ==
    IF cmd.nx /\ Held(st, cmd.key) THEN st
    ELSE [k \in DOMAIN st \cup {cmd.key} |-> IF k = cmd.key THEN cmd.ex ELSE st[k]]

\* One second passes: every reservation has one second less, and is dropped
\* when none is left.
expireStore(st) ==
    [k \in {x \in DOMAIN st : st[x] > 1} |-> st[k] - 1]

(***************************************************************************)
(* The handler: normalisation, formatting, forwarding.                     *)
(***************************************************************************)
JsNumber(n) == [type |-> "number", num |-> n]
JsNull == [type |-> "null", num |-> 0]

\* body.slice(0, 50)
BodyCap == 50
\* The whole body, however long.
rawItemsAll(body) == body

rawItems(body) == SubSeq(body, 1, IF Len(body) < BodyCap THEN Len(body) ELSE BodyCap)

invalidItem(m) == m.id = Null \/ trim(toSafeString(m.message)) = EmptyStr

normalizeItem(m) ==
    [id       |-> m.id,
     message  |-> trim(toSafeString(m.message)),
     timestamp |-> normalizeIsoTimestamp(m.timestamp),
     chatType |-> trim(toSafeString(m.chatType)),
     chatName |-> trim(toSafeString(m.chatName)),
     sender   |-> trim(toSafeString(m.sender)),
     rank     |-> m.rank]

\* A filter that keeps the entries marked invalid.
keepEverything(m) == TRUE

keepValid(m) == ~invalidItem(m)

normalizedItems(body) ==
    LET valid == SelectSeq(rawItems(body), keepValid)
    IN  [i \in 1..Len(valid) |-> normalizeItem(valid[i])]

\* A filter that lets every rank through.
keepAnyRank(m) == TRUE

\* items.filter((m) => m.rank !== -2)
notSentinel(m) == ~(m.rank.type = "number" /\ m.rank.num = -2)

filteredItems(body) == SelectSeq(normalizedItems(body), notSentinel)

\* A batch none of whose entries survived.
noValidMessagesNever(items) == FALSE

\* if (filteredItems.length === 0) return res.status(400)
noValidMessages(items) == Len(items) = 0

\* scope: derived from the expected token when one is configured, else from
\* the caller's header, else "public" (the 12 digits kept of the digest are
\* taken to identify it).
requestScope(expectedToken, authHeader) ==
    IF expectedToken # EmptyStr THEN sha1(expectedToken)
    ELSE IF authHeader # EmptyStr THEN sha1(authHeader)
    ELSE <<"public">>

unauthorized(expectedToken, authHeader) ==
    expectedToken # EmptyStr /\ (authHeader = EmptyStr \/ authHeader # expectedToken)

MemberRanks == {0, 10, 20, 30, 40, 50, 60, 70, 80, 90, 95, 96, 97, 98, 99}
StaffRanks == {101, 102, 103, 110, 115, 125, 126}
StaffBlankRanks == {100, 104, 105, 108, 109}

rankToEmoji(rank) ==
    LET r == IF rank.type = "number" THEN rank.num ELSE 0
    IN  IF r = -2 THEN ""
        ELSE IF r = -1 THEN "guest"
        ELSE IF r >= 0 /\ r < 100 THEN (IF r \in MemberRanks THEN "member" ELSE "diamond")
        ELSE IF r >= 100
             THEN (IF r \in StaffBlankRanks THEN ""
                   ELSE IF r \in StaffRanks THEN "staff" ELSE "shield")
        ELSE "question"

renderLine(m) ==
    [who     |-> IF m.sender # EmptyStr THEN m.sender ELSE <<"Unknown">>,
     emoji   |-> rankToEmoji(m.rank),
     message |-> m.message]

\* arr.slice(from, to): the elements at positions from .. to - 1, counted from 0.
slice(arr, from, to) ==
    SubSeq(arr, from + 1, IF to < Len(arr) THEN to ELSE Len(arr))

\* for (let i = 0; i < arr.length; i += size) out.push(arr.slice(i, i + size));
RECURSIVE chunkLoop(_, _, _, _)
chunkLoop(arr, size, i, out) ==
    IF i < Len(arr)
    THEN chunkLoop(arr, size, i + size, Append(out, slice(arr, i, i + size)))
    ELSE out

\* Everything in one unit, whatever the size asked for.
chunkArrayWhole(arr, size) == <<arr>>

chunkArray(arr, size) == chunkLoop(arr, size, 0, <<>>)

\* Every event kept, whatever its flag.
acceptedItemsAll(items, flags) == items

acceptedItems(items, flags) ==
    LET idx == SelectSeq([i \in 1..Len(items) |-> i], LAMBDA i : ~flags[i])
    IN  [k \in 1..Len(idx) |-> items[idx[k]]]

duplicateCount(items, flags) == Cardinality({i \in 1..Len(items) : flags[i]})

buildEmbeds(accepted) ==
    LET lines == [i \in 1..Len(accepted) |-> renderLine(accepted[i])]
        lineChunks == chunkArray(lines, ChunkSize)
    IN  [k \in 1..Len(lineChunks) |-> [description |-> lineChunks[k]]]

NoResponse == [status |-> 0, kind |-> "none", received |-> 0, accepted |-> 0,
               duplicates |-> 0, error |-> ""]

\* A summary that reports the accepted events as the received ones.
summaryResponseAcceptedOnly(received, accepted, duplicates) ==
    [status |-> 200, kind |-> "summary", received |-> accepted,
     accepted |-> accepted, duplicates |-> duplicates, error |-> ""]

\* { ok: true, received, accepted, duplicates, identityTTL, contentTTL }
summaryResponse(received, accepted, duplicates) ==
    [status |-> 200, kind |-> "summary", received |-> received,
     accepted |-> accepted, duplicates |-> duplicates, error |-> ""]

errorResponse(status, error) ==
    [status |-> status, kind |-> "error", received |-> 0, accepted |-> 0,
     duplicates |-> 0, error |-> error]

\* An answer that hides what the sink reported.
sinkErrorResponseGeneric(failure) == errorResponse(BadGateway, "Unknown error")

\* catch (err): status = err.response?.status || 502; data = err.response?.data || "Unknown error".
\* A failure without a response of the sink is the failure [status |-> 0, data |-> ""].
sinkErrorResponse(failure) ==
    errorResponse(IF failure.status # 0 THEN failure.status ELSE BadGateway,
                  IF failure.data # "" THEN failure.data ELSE "Unknown error")

\* A check of the destination alone.
sinkConfiguredChannelOnly == env.channelId

sinkConfigured == env.channelId /\ env.botToken

(***************************************************************************)
(* Inputs.                                                                 *)
(***************************************************************************)
RawEvent(id, sender, message, rank) ==
    [id |-> id, message |-> message, timestamp |-> Null,
     chatType |-> <<"F", "C">>, chatName |-> Null, sender |-> sender, rank |-> rank]

Ev1 == RawEvent(<<"1">>, <<"A">>, <<"H", "i">>, JsNumber(-1))
\* the content of Ev1 under another identifier, spelt differently
Ev2 == RawEvent(<<"2">>, <<"a", " ">>, <<"h", "i", " ">>, JsNull)
\* the identifier of Ev1 with another content
Ev3 == RawEvent(<<"1">>, <<"A">>, <<"y", "o">>, JsNumber(0))
EvSentinel == RawEvent(<<"2">>, <<"A">>, <<"y", "o">>, JsNumber(-2))
EvBlank == RawEvent(<<"2">>, <<"A">>, <<" ">>, JsNumber(0))

\* no identifier
EvNoId == RawEvent(Null, <<"A">>, <<"H", "i">>, JsNumber(0))
\* an event that shares nothing with the others
EvLate == RawEvent(<<"9">>, <<"Z">>, <<"l", "8">>, JsNumber(126))

SmallPool == {Ev1, Ev2, Ev3, EvSentinel, EvBlank}
SmallBodies == {<<a>> : a \in SmallPool} \cup {<<a, b>> : a, b \in SmallPool}
\* Batches of valid events that share an identifier, a content, or both.
TimedBodies == {<<Ev1>>, <<Ev2>>, <<Ev3>>, <<Ev1, Ev2>>, <<Ev1, Ev3>>, <<Ev2, Ev2>>}
\* Batches of one or two valid events that share identifiers and contents.
RaceBodies == {<<a>> : a \in {Ev1, Ev2, Ev3}} \cup {<<a, b>> : a, b \in {Ev1, Ev2, Ev3}}

LongBody(n) ==
    [i \in 1..n |-> RawEvent(<<ToString(i)>>, <<"A">>, <<"m", ToString(i)>>, JsNumber(-1))]
LongBodies == {LongBody(n) : n \in 1..MaxAccepted}

Token == <<"t", "k">>
AuthHeaders == {Null, Token}

\* What a delivery to the sink may answer: success, a status with an error
\* payload, or no response at all.
SinkFailures == {[status |-> 429, data |-> "rate limited"],
                 [status |-> 500, data |-> ""],
                 [status |-> 0, data |-> ""]}
SinkOutcomes == {[ok |-> TRUE, status |-> 204, data |-> ""]}
                \cup {[ok |-> FALSE, status |-> f.status, data |-> f.data] : f \in SinkFailures}

(***************************************************************************)
(* The in-process deduplicator of api/incoming.js: a map from the text of  *)
(* an event to the time (ms) it was last accepted, shared by the requests  *)
(* the process handles.  A callback runs to completion: the lookup, the    *)
(* insertion and the pruning of one request are one step.                  *)
(***************************************************************************)
\* const DEDUP_WINDOW = 1_000;  // ms
DEDUP_WINDOW == 1000

\* Clock advances a behaviour may take.
MaxClockSteps == 4

IncReqs == {"i1", "i2"}
Texts == {"deposit", "withdraw"}

\* An advance of the clock between two callbacks, in ms.
ClockAdvances == {1, DEDUP_WINDOW - 1}

IdleInc == [pc |-> "idle", text |-> "", now |-> 0, last |-> 0,
            verdict |-> "none", status |-> 0, ideal |-> "none", idealLast |-> 0]

\* Date.now() counts from 1970: it is far beyond the window.
\* unpruned is the map the same decisions would build were it never swept,
\* kept beside the process's own (ideal and idealLast are what a request
\* reads from it).
ProcStart == [now |-> DEDUP_WINDOW, steps |-> 0, seen |-> <<>>, unpruned |-> <<>>,
              inc |-> [r \in IncReqs |-> IdleInc]]

\* const last = seen.get(txnText) || 0;
lastSeen(seenMap, text) == IF text \in DOMAIN seenMap THEN seenMap[text] ELSE 0

\* A window that takes in its upper end.
withinWindowInclusive(now, last) == now - last <= DEDUP_WINDOW

\* if (now - last < DEDUP_WINDOW)
withinWindow(now, last) == now - last < DEDUP_WINDOW

\* seen.set(txnText, now)
seenSet(seenMap, text, now) ==
    [t \in DOMAIN seenMap \cup {text} |-> IF t = text THEN now ELSE seenMap[t]]

\* A sweep that drops every entry but the one just set.
prunedEarly(seenMap, now) ==
    [t \in {x \in DOMAIN seenMap : seenMap[x] = now} |-> seenMap[t]]

\* A pruning that empties the map.
prunedAll(seenMap, now) == <<>>

\* No pruning at all.
prunedNothing(seenMap, now) == seenMap

\* for (const [text, ts] of seen) if (now - ts > DEDUP_WINDOW) seen.delete(text);
pruned(seenMap, now) ==
    [t \in {x \in DOMAIN seenMap : ~(now - seenMap[x] > DEDUP_WINDOW)} |-> seenMap[t]]

\* A multipart POST arrives and is handed to the parser.
Incoming(r, text) ==
    /\ proc.inc[r].pc = "idle"
    /\ proc' = [proc EXCEPT !.inc[r] = [IdleInc EXCEPT !.pc = "parsing", !.text = text]]
    /\ UNCHANGED <<env, store, age, seen, req>>

\* The parser's 'finish' callback, up to its await: the text is extracted,
\* looked up, and either skipped as a duplicate or recorded, the map pruned.
Dedupe(r) ==
    LET q == proc.inc[r]
        now == proc.now
        last == lastSeen(proc.seen, q.text)
        idealLast == lastSeen(proc.unpruned, q.text)
        ideal == IF now - idealLast < DEDUP_WINDOW THEN "duplicate" ELSE "accepted"
        unpruned == IF ideal = "duplicate" THEN proc.unpruned
                    ELSE seenSet(proc.unpruned, q.text, now)
        q1 == [q EXCEPT !.now = now, !.last = last,
                        !.ideal = ideal, !.idealLast = idealLast]
    IN  /\ q.pc = "parsing"
        /\ proc' =
              IF q.text = ""
              THEN [proc EXCEPT !.inc[r].pc = "done", !.inc[r].status = 400]
              ELSE IF withinWindow(now, last)
              THEN [proc EXCEPT !.unpruned = unpruned,
                                !.inc[r] = [q1 EXCEPT !.pc = "done",
                                                      !.verdict = "duplicate",
                                                      !.status = 204]]
              ELSE [proc EXCEPT !.seen = pruned(seenSet(proc.seen, q.text, now), now),
                                !.unpruned = unpruned,
                                !.inc[r] = [q1 EXCEPT !.pc = "forward",
                                                      !.verdict = "accepted"]]
        /\ UNCHANGED <<env, store, age, seen, req>>

\* await axios.post(DISCORD_WEBHOOK_URL, ...): forwarded, or the post failed.
Forward(r, ok) ==
    /\ proc.inc[r].pc = "forward"
    /\ proc' = [proc EXCEPT !.inc[r].pc = "done",
                             !.inc[r].status = IF ok THEN 200 ELSE 500]
    /\ UNCHANGED <<env, store, age, seen, req>>

\* The response has been sent.
Respond(r) ==
    /\ proc.inc[r].pc = "done"
    /\ proc' = [proc EXCEPT !.inc[r] = IdleInc]
    /\ UNCHANGED <<env, store, age, seen, req>>

\* Time passes on the process's clock.
ClockAdvance(d) ==
    /\ proc.steps < MaxClockSteps
    /\ proc' = [proc EXCEPT !.now = @ + d, !.steps = @ + 1]
    /\ UNCHANGED <<env, store, age, seen, req>>

(***************************************************************************)
(* State.                                                                  *)
(***************************************************************************)
IdleReq ==
    [pc |-> "idle", raw |-> <<>>, scope |-> EmptyStr, items |-> <<>>,
     calls |-> 0, results |-> <<>>,
     obs |-> <<>>, fault |-> "none", flags |-> <<>>, embeds |-> <<>>,
     posts |-> <<>>, response |-> NoResponse]

\* The identity a command is about, apart from how its key is spelt.
idIdent(scope, m) ==
    [kind |-> "id", scope |-> scope, id |-> m.id,
     content |-> <<>>]

contentIdent(scope, m) ==
    [kind |-> "content", scope |-> scope, id |-> EmptyStr,
     content |-> <<normalizeForSig(m.chatType), normalizeForSig(m.chatName),
                   normalizeForSig(m.sender), normalizeForSig(m.message)>>]

commandIdent(q, c) ==
    IF c % 2 = 1 THEN idIdent(q.scope, q.items[(c + 1) \div 2])
    ELSE contentIdent(q.scope, q.items[c \div 2])

IdentCap(ident) == IF ident.kind = "id" THEN IdTtlSec ELSE ContentTtlSec

\* "never", or "recent" (less than the identity's TTL ago), or "lapsed".
Since(h, ident) ==
    IF ident \notin DOMAIN h THEN "never"
    ELSE IF h[ident] < IdentCap(ident) THEN "recent" ELSE "lapsed"

Touch(h, ident) == [k \in DOMAIN h \cup {ident} |-> IF k = ident THEN 0 ELSE h[k]]

Older(h) ==
    [k \in DOMAIN h |-> IF h[k] < IdentCap(k) THEN h[k] + 1 ELSE h[k]]

idTtlSec == IdTtlSec
contentTtlSec == ContentTtlSec

requestCommands(q) == pipelineCommands(q.items, q.scope, idTtlSec, contentTtlSec)

\* The sink's configuration checked before anything else.
afterDedupeCheckSinkFirst(q, flags) ==
    LET accepted == acceptedItems(q.items, flags)
        duplicates == duplicateCount(q.items, flags)
        q1 == [q EXCEPT !.flags = flags]
    IN  IF ~sinkConfigured
        THEN [q1 EXCEPT !.pc = "done",
                        !.response = errorResponse(BadGateway, "Unknown error")]
        ELSE IF Len(accepted) = 0
        THEN [q1 EXCEPT !.pc = "done",
                        !.response = summaryResponse(Len(q.items), 0, duplicates)]
        ELSE [q1 EXCEPT !.pc = "sink", !.embeds = buildEmbeds(accepted)]

\* The handler from the decisions of the dedup engine up to its first
\* delivery to the sink (or to its response when there is none).
afterDedupe(q, flags) ==
    LET accepted == acceptedItems(q.items, flags)
        duplicates == duplicateCount(q.items, flags)
        q1 == [q EXCEPT !.flags = flags]
    IN  IF Len(accepted) = 0
        THEN [q1 EXCEPT !.pc = "done",
                        !.response = summaryResponse(Len(q.items), 0, duplicates)]
        ELSE IF ~sinkConfigured
        THEN [q1 EXCEPT !.pc = "done",
                        !.embeds = buildEmbeds(accepted),
                        !.response = errorResponse(BadGateway, "Unknown error")]
        ELSE [q1 EXCEPT !.pc = "sink", !.embeds = buildEmbeds(accepted)]

(***************************************************************************)
(* Actions.                                                                *)
(***************************************************************************)
\* A POST arrives: authentication, validation and normalisation, then either
\* a response, or the pipeline call to the store.
Submit(r, auth, body) ==
    /\ req[r].pc = "idle"
    /\ LET expectedToken == trim(toSafeString(env.authToken))
           authHeader == trim(toSafeString(auth))
           items == filteredItems(body)
           q0 == [IdleReq EXCEPT !.raw = body]
           q == [q0 EXCEPT !.scope = requestScope(expectedToken, authHeader),
                           !.items = items]
       IN  req' = [req EXCEPT ![r] =
              IF unauthorized(expectedToken, authHeader)
              THEN [q0 EXCEPT !.pc = "done",
                              !.response = errorResponse(401, "Unauthorized")]
              ELSE IF noValidMessages(items)
              THEN [q0 EXCEPT !.pc = "done",
                              !.response = errorResponse(400, "No valid messages found in body.")]
              ELSE IF ~env.upstash
              THEN afterDedupe(q, unconfiguredFlags(items))
              ELSE [q EXCEPT !.pc = "store", !.calls = 1]]
    /\ UNCHANGED <<env, store, age, seen, proc>>

\* The store executes the next command of the request's pipeline, or fails it.
StoreExec(r, fails) ==
    LET q == req[r]
        c == Len(q.results) + 1
    IN  /\ q.pc = "store"
        /\ c <= 2 * Len(q.items)
        /\ LET cmd == requestCommands(q)[c]
               ident == commandIdent(q, c)
               result == IF fails THEN "ERR" ELSE setNxResult(store, cmd)
           IN  /\ store' = IF fails THEN store ELSE setNxStore(store, cmd)
               /\ age' = IF result = "OK" THEN Touch(age, ident) ELSE age
               /\ seen' = Touch(seen, ident)
               /\ req' = [req EXCEPT ![r].results = Append(@, result),
                                     ![r].obs = Append(@, [reserved |-> Since(age, ident),
                                                           seen |-> Since(seen, ident)])]
        /\ UNCHANGED <<env, proc>>

\* The pipeline call returns: the whole list of results, a shorter list, or
\* a body that is no list.
FullReply(results) == [isArray |-> TRUE, body |-> results]

Replies(results) ==
    {[isArray |-> TRUE, body |-> SubSeq(results, 1, n)] : n \in 0..Len(results)}
    \cup {[isArray |-> FALSE, body |-> <<>>]}

ReplyFault(data, results) ==
    IF ~data.isArray THEN "notalist"
    ELSE IF Len(data.body) < Len(results) THEN "short" ELSE "none"

StoreReply(r, data) ==
    LET q == req[r]
    IN  /\ q.pc = "store"
        /\ Len(q.results) = 2 * Len(q.items)
        /\ data \in Replies(q.results)
        /\ req' = [req EXCEPT ![r] =
              afterDedupe([q EXCEPT !.fault = ReplyFault(data, q.results),
                                    !.results = replyResults(data)],
                          dupFlags(q.items, replyResults(data)))]
        /\ UNCHANGED <<env, store, age, seen, proc>>

\* The pipeline call throws (the store is unreachable, or the call times
\* out), whatever the store has executed of it.
StoreThrow(r) ==
    LET q == req[r]
    IN  /\ q.pc = "store"
        /\ req' = [req EXCEPT ![r] =
              afterDedupe([q EXCEPT !.fault = "throw"], failOpenFlags(q.items))]
        /\ UNCHANGED <<env, store, age, seen, proc>>

\* A loop that goes on to the next unit after a failed delivery.
sinkStepKeepGoing(q, outcome) ==
    LET k == Len(q.posts) + 1
        q1 == [q EXCEPT !.posts = Append(@, [embed |-> q.embeds[k], ok |-> outcome.ok,
                                                 status |-> outcome.status,
                                                 data |-> outcome.data])]
    IN  IF k = Len(q.embeds)
        THEN [q1 EXCEPT !.pc = "done",
                        !.response = IF outcome.ok
                                     THEN summaryResponse(Len(q.items),
                                                          Len(acceptedItems(q.items, q.flags)),
                                                          duplicateCount(q.items, q.flags))
                                     ELSE sinkErrorResponse(outcome)]
        ELSE q1

\* A catch that logs the failure and sends nothing.
sinkStepSilent(q, outcome) ==
    LET k == Len(q.posts) + 1
        q1 == [q EXCEPT !.posts = Append(@, [embed |-> q.embeds[k], ok |-> outcome.ok,
                                                 status |-> outcome.status,
                                                 data |-> outcome.data])]
    IN  IF ~outcome.ok
        THEN [q1 EXCEPT !.pc = "ended"]
        ELSE IF k = Len(q.embeds)
        THEN [q1 EXCEPT !.pc = "done",
                        !.response = summaryResponse(Len(q.items),
                                                     Len(acceptedItems(q.items, q.flags)),
                                                     duplicateCount(q.items, q.flags))]
        ELSE q1

\* One turn of the loop of postDiscordEmbeds and what the handler does with
\* its outcome: a failure ends the loop in the handler's catch, the last
\* success ends it in the summary.
sinkStep(q, outcome) ==
    LET k == Len(q.posts) + 1
        q1 == [q EXCEPT !.posts = Append(@, [embed |-> q.embeds[k], ok |-> outcome.ok,
                                                 status |-> outcome.status,
                                                 data |-> outcome.data])]
    IN  IF ~outcome.ok
        THEN [q1 EXCEPT !.pc = "done", !.response = sinkErrorResponse(outcome)]
        ELSE IF k = Len(q.embeds)
        THEN [q1 EXCEPT !.pc = "done",
                        !.response = summaryResponse(Len(q.items),
                                                     Len(acceptedItems(q.items, q.flags)),
                                                     duplicateCount(q.items, q.flags))]
        ELSE q1

\* The keys the request's own commands reserved.
reservedKeys(q) ==
    {requestCommands(q)[c].key : c \in {x \in 1..Len(q.results) : q.results[x] = "OK"}}

\* A compensation that frees the request's reservations when a delivery fails.
storeRolledBack(st, q) == [k \in DOMAIN st \ reservedKeys(q) |-> st[k]]

\* The handler's catch answers the caller and leaves the store as it is.
storeAfterFailure(st, q) == st

\* postDiscordEmbeds: the next outbound unit is sent to the sink.
SinkPost(r, outcome) ==
    /\ req[r].pc = "sink"
    /\ Len(req[r].posts) < Len(req[r].embeds)
    /\ req' = [req EXCEPT ![r] = sinkStep(req[r], outcome)]
    /\ store' = IF outcome.ok THEN store ELSE storeAfterFailure(store, req[r])
    /\ UNCHANGED <<env, age, seen, proc>>

\* The response has been sent; the slot serves the next request.
Finish(r) ==
    /\ req[r].pc = "done"
    /\ req' = [req EXCEPT ![r] = IdleReq]
    /\ UNCHANGED <<env, store, age, seen, proc>>

\* One second passes on the store's clock.
Tick ==
    /\ store' = expireStore(store)
    /\ age' = Older(age)
    /\ seen' = Older(seen)
    /\ UNCHANGED <<env, req, proc>>

Envs == [upstash : {TRUE}, channelId : {TRUE}, botToken : {TRUE}, authToken : {Null}]

Start(slots) ==
    /\ env \in Envs
    /\ store = <<>>
    /\ age = <<>>
    /\ seen = <<>>
    /\ proc = ProcStart
    /\ req = [r \in slots |-> IdleReq]

\* Requests served one after the other by a store that answers every command,
\* while the store's clock runs.
Init == Start({"r1"})

Next ==
    \/ \E r \in DOMAIN req, body \in TimedBodies : Submit(r, Null, body)
    \/ \E r \in DOMAIN req : StoreExec(r, FALSE)
    \/ \E r \in DOMAIN req : StoreReply(r, FullReply(req[r].results))
    \/ \E r \in DOMAIN req, outcome \in SinkOutcomes : SinkPost(r, outcome)
    \/ \E r \in DOMAIN req : Finish(r)
    \/ Tick

Spec == Init /\ [][Next]_vars

\* Requests served one after the other by a store that may fail: a command
\* errors, the reply is cut short or is no list, the call throws.
InitFault == Start({"r1"})

NextFault ==
    \/ \E r \in DOMAIN req, body \in SmallBodies : Submit(r, Null, body)
    \/ \E r \in DOMAIN req, fails \in BOOLEAN : StoreExec(r, fails)
    \/ \E r \in DOMAIN req : \E data \in Replies(req[r].results) : StoreReply(r, data)
    \/ \E r \in DOMAIN req : StoreThrow(r)
    \/ \E r \in DOMAIN req, outcome \in SinkOutcomes : SinkPost(r, outcome)
    \/ \E r \in DOMAIN req : Finish(r)

SpecFault == InitFault /\ [][NextFault]_vars

\* Two requests in flight at once, their store commands interleaved, within
\* the lifetime of the reservations (the clock does not advance).

InitRace == Start(Reqs)

NextRace ==
    \/ \E r \in DOMAIN req, body \in RaceBodies : Submit(r, Null, body)
    \/ \E r \in DOMAIN req : StoreExec(r, FALSE)
    \/ \E r \in DOMAIN req : StoreReply(r, FullReply(req[r].results))
    \/ \E r \in DOMAIN req : SinkPost(r, [ok |-> TRUE, status |-> 204, data |-> ""])
    \/ \E r \in DOMAIN req : Finish(r)

SpecRace == InitRace /\ [][NextRace]_vars

\* Whole batches served one after the other within the lifetime of the
\* reservations: batches of one to three events that share identifiers and
\* contents, batches with entries that are dropped, batches longer than the cap.
BatchPool == {Ev1, Ev2, Ev3}
SharingBodies ==
    {<<a>> : a \in BatchPool} \cup {<<a, b>> : a, b \in BatchPool}
    \cup {<<a, b, c>> : a, b, c \in BatchPool}

DropPool == {Ev1, EvSentinel, EvBlank, EvNoId}
DropBodies == {<<a>> : a \in DropPool} \cup {<<a, b>> : a, b \in DropPool}

BlankRun(n) == [i \in 1..n |-> EvBlank]
CapBodies ==
    {BlankRun(n) \o <<Ev1, EvLate>> : n \in {BodyCap - 2, BodyCap - 1, BodyCap}}
    \cup {LongBody(BodyCap + 1)}

BatchBodies == SharingBodies \cup DropBodies \cup CapBodies

InitBatch == Start({"r1"})

NextBatch ==
    \/ \E r \in DOMAIN req, body \in BatchBodies : Submit(r, Null, body)
    \/ \E r \in DOMAIN req : StoreExec(r, FALSE)
    \/ \E r \in DOMAIN req : StoreReply(r, FullReply(req[r].results))
    \/ \E r \in DOMAIN req, outcome \in SinkOutcomes : SinkPost(r, outcome)
    \/ \E r \in DOMAIN req : Finish(r)

SpecBatch == InitBatch /\ [][NextBatch]_vars

\* Two requests, each of one event, against a store whose clock runs and a
\* sink that may fail or may not be configured: an event is submitted again
\* after the request that carried it failed.
RetryBodies == {<<Ev1>>}
RetryEnvs == [upstash : {TRUE}, channelId : BOOLEAN, botToken : BOOLEAN, authToken : {Null}]

InitRetry ==
    /\ env \in RetryEnvs
    /\ store = <<>>
    /\ age = <<>>
    /\ seen = <<>>
    /\ proc = ProcStart
    /\ req = [r \in Reqs |-> IdleReq]

NextRetry ==
    \/ \E r \in DOMAIN req, body \in RetryBodies : Submit(r, Null, body)
    \/ \E r \in DOMAIN req : StoreExec(r, FALSE)
    \/ \E r \in DOMAIN req : StoreReply(r, FullReply(req[r].results))
    \/ \E r \in DOMAIN req, outcome \in SinkOutcomes : SinkPost(r, outcome)
    \/ \E r \in DOMAIN req : Finish(r)
    \/ Tick

SpecRetry == InitRetry /\ [][NextRetry]_vars

\* The process of api/incoming.js handling two requests at once.
InitFallback == Start(Reqs)

NextFallback ==
    \/ \E r \in IncReqs, text \in Texts \cup {""} : Incoming(r, text)
    \/ \E r \in IncReqs : Dedupe(r)
    \/ \E r \in IncReqs, ok \in BOOLEAN : Forward(r, ok)
    \/ \E r \in IncReqs : Respond(r)
    \/ \E d \in ClockAdvances : ClockAdvance(d)

SpecFallback == InitFallback /\ [][NextFallback]_vars

\* Events that differ by their timestamp alone: no fraction, a fraction of
\* zero to MaxFracDigits digits, ended by "Z", by an offset or by nothing,
\* with or without spaces around; no timestamp, a blank one.
MaxFracDigits == 5

FracDigits(n) == [i \in 1..n |-> ToString(i % 10)]
Fractions == {<<>>} \cup {<<".">> \o FracDigits(n) : n \in 0..MaxFracDigits}
ZoneSuffixes == {<<"Z">>, <<>>, <<"+", "1">>}
Paddings == {<<>>, <<" ">>}

Timestamps ==
    {Null, <<" ">>} \cup
    {pad \o <<"T">> \o frac \o zone \o pad :
        pad \in Paddings, frac \in Fractions, zone \in ZoneSuffixes}

Stamped(m, timestampIso) == [m EXCEPT !.timestamp = timestampIso]
StampBodies == {<<Stamped(Ev1, ts)>> : ts \in Timestamps}

InitStamp == Start({"r1"})

NextStamp ==
    \/ \E r \in DOMAIN req, body \in StampBodies : Submit(r, Null, body)
    \/ \E r \in DOMAIN req : StoreExec(r, FALSE)
    \/ \E r \in DOMAIN req : StoreReply(r, FullReply(req[r].results))
    \/ \E r \in DOMAIN req : SinkPost(r, [ok |-> TRUE, status |-> 204, data |-> ""])
    \/ \E r \in DOMAIN req : Finish(r)

SpecStamp == InitStamp /\ [][NextStamp]_vars

\* Two callers of a deployment without auth token, one that sends an
\* authorization header and one that sends none: two scopes on one store.
ScopeBodies == {<<Ev1>>, <<Ev2>>}

InitScope == Start(Reqs)

NextScope ==
    \/ \E r \in DOMAIN req, auth \in AuthHeaders, body \in ScopeBodies : Submit(r, auth, body)
    \/ \E r \in DOMAIN req : StoreExec(r, FALSE)
    \/ \E r \in DOMAIN req : StoreReply(r, FullReply(req[r].results))
    \/ \E r \in DOMAIN req : SinkPost(r, [ok |-> TRUE, status |-> 204, data |-> ""])
    \/ \E r \in DOMAIN req : Finish(r)

SpecScope == InitScope /\ [][NextScope]_vars

\* Long batches forwarded to the sink by a deployment without a store.
FwdEnvs == [upstash : {FALSE}, channelId : BOOLEAN, botToken : BOOLEAN, authToken : {Null}]

InitFwd ==
    /\ env \in FwdEnvs
    /\ store = <<>>
    /\ age = <<>>
    /\ seen = <<>>
    /\ proc = ProcStart
    /\ req = [r \in Reqs |-> IdleReq]

NextFwd ==
    \/ \E r \in DOMAIN req, body \in LongBodies : Submit(r, Null, body)
    \/ \E r \in DOMAIN req, outcome \in SinkOutcomes : SinkPost(r, outcome)
    \/ \E r \in DOMAIN req : Finish(r)

SpecFwd == InitFwd /\ [][NextFwd]_vars

(***************************************************************************)
(* The time-bucket variant of the handler (src/unnamed/part_004): the      *)
(* content signature carries the bucket of the event's timestamp, no rank  *)
(* is read and the timestamp is trimmed, not reformatted.                  *)
(***************************************************************************)
\* const bucketMs = Number(process.env.CHATLOGGER_CONTENT_BUCKET_MS || 5000);
BucketMs == 5000

\* Date.parse on what the batches carry: a UTC date-time of January 1970,
\* 1970-01-DDTHH:MM:SSZ or 1970-01-DDTHH:MM:SS.mmmZ, gives its milliseconds
\* since the epoch; a text that is no date (the empty string among them)
\* gives NaN.
dateParse(s) ==
    LET NaN == [finite |-> FALSE, ms |-> 0]
        DigitValue(c) == CHOOSE d \in 0..9 : ToString(d) = c
        TwoDigitsAt(p) == 10 * DigitValue(s[p]) + DigitValue(s[p + 1])
        n == Len(s)
        digitsAt == {9, 10, 12, 13, 15, 16, 18, 19}
                        \cup (IF n = 24 THEN {21, 22, 23} ELSE {})
        layout ==
            /\ n \in {20, 24}
            /\ SubSeq(s, 1, 8) = <<"1", "9", "7", "0", "-", "0", "1", "-">>
            /\ s[11] = "T" /\ s[14] = ":" /\ s[17] = ":" /\ s[n] = "Z"
            /\ n = 24 => s[20] = "."
            /\ \A p \in digitsAt : IsDigit(s[p])
    IN  IF ~layout THEN NaN
        ELSE LET day == TwoDigitsAt(9)
                 hour == TwoDigitsAt(12)
                 minute == TwoDigitsAt(15)
                 second == TwoDigitsAt(18)
                 milli == IF n = 24
                          THEN 100 * DigitValue(s[21]) + TwoDigitsAt(22)
                          ELSE 0
             IN  IF day \notin 1..31 \/ hour > 23 \/ minute > 59 \/ second > 59
                 THEN NaN
                 ELSE [finite |-> TRUE,
                       ms |-> ((((day - 1) * 24 + hour) * 60 + minute) * 60 + second) * 1000
                                 + milli]

\* The bucket taken by rounding to the nearest boundary.
timestampBucketRounded(timestampIso, bucketMs) ==
    LET parsed == dateParse(timestampIso)
    IN  IF ~parsed.finite THEN <<"0">>
        ELSE <<ToString((parsed.ms + (bucketMs \div 2)) \div bucketMs)>>

\* if (!Number.isFinite(ms)) return "0"; return String(Math.floor(ms / bucketMs));
timestampBucket(timestampIso, bucketMs) ==
    LET parsed == dateParse(timestampIso)
    IN  IF ~parsed.finite THEN <<"0">>
        ELSE <<ToString(parsed.ms \div bucketMs)>>

contentSigBucketed(m, bucketMs) ==
    join(<<normalizeForSig(m.chatType), normalizeForSig(m.chatName),
           normalizeForSig(m.sender), normalizeForSig(m.message),
           timestampBucket(m.timestamp, bucketMs)>>, <<"|">>)

contentKeyBucketed(scope, m, bucketMs) ==
    <<"dedupe:chatlogger:content:">> \o scope \o <<":">>
        \o sha1(contentSigBucketed(m, bucketMs))

pipelineCommandsBucketed(items, scope, idTtl, contentTtl, bucketMs) ==
    [c \in 1..(2 * Len(items)) |->
        IF c % 2 = 1
        THEN [key |-> idKey(scope, items[(c + 1) \div 2]), ex |-> idTtl, nx |-> TRUE]
        ELSE [key |-> contentKeyBucketed(scope, items[c \div 2], bucketMs),
              ex |-> contentTtl, nx |-> TRUE]]

normalizeItemBucketed(m) ==
    [id       |-> m.id,
     message  |-> trim(toSafeString(m.message)),
     timestamp |-> trim(toSafeString(m.timestamp)),
     chatType |-> trim(toSafeString(m.chatType)),
     chatName |-> trim(toSafeString(m.chatName)),
     sender   |-> trim(toSafeString(m.sender))]

itemsBucketed(body) ==
    LET valid == SelectSeq(rawItems(body), keepValid)
    IN  [i \in 1..Len(valid) |-> normalizeItemBucketed(valid[i])]

buildEmbedsPlain(accepted) ==
    LET lines == [i \in 1..Len(accepted) |->
                     [who |-> IF accepted[i].sender # EmptyStr THEN accepted[i].sender
                              ELSE <<"Unknown">>,
                      message |-> accepted[i].message]]
        lineChunks == chunkArray(lines, ChunkSize)
    IN  [k \in 1..Len(lineChunks) |-> [description |-> lineChunks[k]]]

\* The variant's handler from the decisions of its dedup engine up to its
\* first delivery to the sink.
afterDedupeBucketed(q, flags) ==
    LET accepted == acceptedItems(q.items, flags)
        duplicates == duplicateCount(q.items, flags)
        q1 == [q EXCEPT !.flags = flags]
    IN  IF Len(accepted) = 0
        THEN [q1 EXCEPT !.pc = "done",
                        !.response = summaryResponse(Len(q.items), 0, duplicates)]
        ELSE IF ~sinkConfigured
        THEN [q1 EXCEPT !.pc = "done",
                        !.embeds = buildEmbedsPlain(accepted),
                        !.response = errorResponse(BadGateway, "Unknown error")]
        ELSE [q1 EXCEPT !.pc = "sink", !.embeds = buildEmbedsPlain(accepted)]

\* What a command of the variant is about: the content one carries the
\* event's timestamp as received.
contentIdentBucketed(scope, m) ==
    [kind |-> "content", scope |-> scope, id |-> EmptyStr,
     content |-> <<normalizeForSig(m.chatType), normalizeForSig(m.chatName),
                   normalizeForSig(m.sender), normalizeForSig(m.message)>>,
     timestamp |-> m.timestamp]

commandIdentBucketed(q, c) ==
    IF c % 2 = 1
    THEN [kind |-> "id", scope |-> q.scope, id |-> q.items[(c + 1) \div 2].id,
          content |-> <<>>, timestamp |-> EmptyStr]
    ELSE contentIdentBucketed(q.scope, q.items[c \div 2])

\* The commands whose reservation still runs.
Running(h) == {k \in DOMAIN h : h[k] < IdentCap(k)}

\* A POST arrives at the variant.
SubmitBucketed(r, auth, body) ==
    /\ req[r].pc = "idle"
    /\ LET expectedToken == trim(toSafeString(env.authToken))
           authHeader == trim(toSafeString(auth))
           items == itemsBucketed(body)
           q0 == [IdleReq EXCEPT !.raw = body]
           q == [q0 EXCEPT !.scope = IF authHeader # EmptyStr THEN sha1(authHeader)
                                     ELSE <<"public">>,
                           !.items = items]
       IN  req' = [req EXCEPT ![r] =
              IF unauthorized(expectedToken, authHeader)
              THEN [q0 EXCEPT !.pc = "done",
                              !.response = errorResponse(401, "Unauthorized")]
              ELSE IF Len(items) = 0
              THEN [q0 EXCEPT !.pc = "done",
                              !.response = errorResponse(400, "No valid messages found in body.")]
              ELSE IF ~env.upstash
              THEN afterDedupeBucketed(q, unconfiguredFlags(items))
              ELSE [q EXCEPT !.pc = "store", !.calls = 1]]
    /\ UNCHANGED <<env, store, age, seen, proc>>

\* The store executes the next command of the variant's pipeline.
StoreExecBucketed(r) ==
    LET q == req[r]
        c == Len(q.results) + 1
    IN  /\ q.pc = "store"
        /\ c <= 2 * Len(q.items)
        /\ LET commands == pipelineCommandsBucketed(q.items, q.scope, idTtlSec,
                                                    contentTtlSec, BucketMs)
               cmd == commands[c]
               ident == commandIdentBucketed(q, c)
               result == setNxResult(store, cmd)
           IN  /\ store' = setNxStore(store, cmd)
               /\ age' = IF result = "OK" THEN Touch(age, ident) ELSE age
               /\ req' = [req EXCEPT ![r].results = Append(@, result),
                                     ![r].obs = Append(@, [reserved |-> Since(age, ident),
                                                           running |-> Running(age)])]
        /\ UNCHANGED <<env, seen, proc>>

\* The variant's pipeline call returns the whole list of results.
StoreReplyBucketed(r) ==
    LET q == req[r]
    IN  /\ q.pc = "store"
        /\ Len(q.results) = 2 * Len(q.items)
        /\ req' = [req EXCEPT ![r] = afterDedupeBucketed(q, dupFlags(q.items, q.results))]
        /\ UNCHANGED <<env, store, age, seen, proc>>

\* The date-time 1970-01-01T00:01:SS.mmmZ.
IsoStamp(second, milli) ==
    <<"1", "9", "7", "0", "-", "0", "1", "-", "0", "1", "T", "0", "0", ":", "0", "1", ":">>
        \o second \o <<".">> \o milli \o <<"Z">>

\* Timestamps on both sides of the boundary between buckets 12 and 13 (at
\* 65 000 ms), one in the first bucket of the epoch, a text that is no date
\* and no timestamp at all.
BucketStamps ==
    {IsoStamp(<<"0", "1">>, <<"0", "0", "0">>),
     IsoStamp(<<"0", "4">>, <<"9", "9", "9">>),
     IsoStamp(<<"0", "5">>, <<"0", "0", "0">>),
     <<"1", "9", "7", "0", "-", "0", "1", "-", "0", "1", "T", "0", "0", ":", "0", "0", ":",
       "0", "1", "Z">>,
     <<"n", "o", "w">>,
     Null}

EvAt(id, timestampIso) == Stamped(RawEvent(id, <<"A">>, <<"H", "i">>, JsNull), timestampIso)

\* One event, or two events of the same content under different identifiers.
BucketBodies ==
    {<<EvAt(<<"3">>, ts)>> : ts \in BucketStamps}
    \cup {<<EvAt(<<"1">>, t1), EvAt(<<"2">>, t2)>> : t1 \in BucketStamps, t2 \in BucketStamps}

\* Requests served one after the other by the variant, within the lifetime
\* of the reservations (the clock does not advance).
InitBucket == Start({"r1"})

NextBucket ==
    \/ \E r \in DOMAIN req, body \in BucketBodies : SubmitBucketed(r, Null, body)
    \/ \E r \in DOMAIN req : StoreExecBucketed(r)
    \/ \E r \in DOMAIN req : StoreReplyBucketed(r)
    \/ \E r \in DOMAIN req, outcome \in SinkOutcomes : SinkPost(r, outcome)
    \/ \E r \in DOMAIN req : Finish(r)

SpecBucket == InitBucket /\ [][NextBucket]_vars

\* The handler under every configuration, with a store call that returns
\* or throws and sink calls that succeed or fail, each of them in the end:
\* the calls carry timeouts (10 s and 15 s), so none stays pending for ever.
LiveEnvs == [upstash : BOOLEAN, channelId : BOOLEAN, botToken : {TRUE},
             authToken : {Token}]

LiveBodies == {<<>>, <<EvBlank>>, <<Ev1>>, <<Ev1, Ev2>>, LongBody(ChunkSize + 1)}

LiveReqs == {"r1"}

InitLive ==
    /\ env \in LiveEnvs
    /\ store = <<>>
    /\ age = <<>>
    /\ seen = <<>>
    /\ proc = ProcStart
    /\ req = [r \in LiveReqs |-> IdleReq]

StoreReturns(r) ==
    \/ \E data \in Replies(req[r].results) : StoreReply(r, data)
    \/ StoreThrow(r)

SinkReturns(r) == \E outcome \in SinkOutcomes : SinkPost(r, outcome)

NextLive ==
    \/ \E r \in DOMAIN req, auth \in AuthHeaders, body \in LiveBodies : Submit(r, auth, body)
    \/ \E r \in DOMAIN req : StoreExec(r, FALSE)
    \/ \E r \in DOMAIN req : StoreReturns(r)
    \/ \E r \in DOMAIN req : SinkReturns(r)
    \/ \E r \in DOMAIN req : Finish(r)

SpecLive ==
    /\ InitLive
    /\ [][NextLive]_vars
    /\ \A r \in LiveReqs : WF_vars(StoreReturns(r)) /\ WF_vars(SinkReturns(r))

(***************************************************************************)
(* Properties.  A request is decided once the dedup engine has returned    *)
(* its flags; obs[2i-1] and obs[2i] tell what was known of item i's        *)
(* identity and content when its two commands were executed.               *)
(***************************************************************************)
Decided(q) == Len(q.items) > 0 /\ Len(q.flags) = Len(q.items)

Items(q) == 1..Len(q.items)

\* Both commands of item i were executed and answered without error, in a
\* complete reply.
Answered(q, i) ==
    /\ q.fault = "none"
    /\ Len(q.obs) >= 2 * i
    /\ ~errored(ResultAt(q.results, 2 * i - 1))
    /\ ~errored(ResultAt(q.results, 2 * i))

\* C1 as stated: an event is marked duplicate whenever an event with the
\* same (scope, identifier) was submitted less than the identity TTL before
\* it, in the same batch or in an earlier request.
C1_Original ==
    \A r \in DOMAIN req : Decided(req[r]) =>
        \A i \in Items(req[r]) :
            (Answered(req[r], i) /\ req[r].obs[2 * i - 1].seen = "recent")
                => req[r].flags[i]

\* C1 as amended: an event is marked duplicate whenever its (scope,
\* identifier) was reserved less than the identity TTL before, by an event
\* of the same batch or of an earlier request, and the store answers both of
\* its commands.
C1_ReservedIdentityIsDuplicate ==
    \A r \in DOMAIN req : Decided(req[r]) =>
        \A i \in Items(req[r]) :
            (Answered(req[r], i) /\ req[r].obs[2 * i - 1].reserved = "recent")
                => req[r].flags[i]

\* A duplicate by its identifier alone: the content was not reserved.
C1_Witness ==
    \E r \in DOMAIN req : Decided(req[r]) /\
        \E i \in Items(req[r]) :
            /\ Answered(req[r], i)
            /\ req[r].obs[2 * i - 1].reserved = "recent"
            /\ req[r].obs[2 * i].reserved = "never"
            /\ req[r].flags[i]

\* C2 as stated: an event is marked duplicate whenever an event of the same
\* scope with the same normalized (chat-type, chat-name, sender, message) was
\* submitted less than the content TTL before it, whatever its identifier.
C2_Original ==
    \A r \in DOMAIN req : Decided(req[r]) =>
        \A i \in Items(req[r]) :
            (Answered(req[r], i) /\ req[r].obs[2 * i].seen = "recent")
                => req[r].flags[i]

\* C2 as amended: an event is marked duplicate whenever its scope and
\* normalized (chat-type, chat-name, sender, message) were reserved less than
\* the content TTL before, whatever its identifier, and the store answers
\* both of its commands.
C2_ReservedContentIsDuplicate ==
    \A r \in DOMAIN req : Decided(req[r]) =>
        \A i \in Items(req[r]) :
            (Answered(req[r], i) /\ req[r].obs[2 * i].reserved = "recent")
                => req[r].flags[i]

\* A duplicate by its content alone, under an identifier never seen before.
C2_Witness ==
    \E r \in DOMAIN req : Decided(req[r]) /\
        \E i \in Items(req[r]) :
            /\ Answered(req[r], i)
            /\ req[r].obs[2 * i].reserved = "recent"
            /\ req[r].obs[2 * i - 1].seen = "never"
            /\ req[r].flags[i]

\* C3: when neither command of an event errors, the event is accepted iff
\* both commands report a successful reservation; with a complete reply that
\* is iff neither of its keys was held when its command was executed.
C3_AcceptedIffBothReserved ==
    \A r \in DOMAIN req : (Decided(req[r]) /\ req[r].fault # "throw") =>
        \A i \in Items(req[r]) :
            LET q == req[r]
                idResult == ResultAt(q.results, 2 * i - 1)
                contentResult == ResultAt(q.results, 2 * i)
            IN  (~errored(idResult) /\ ~errored(contentResult)) =>
                  /\ ~q.flags[i] <=> (idResult = "OK" /\ contentResult = "OK")
                  /\ q.fault = "none" =>
                       (~q.flags[i] <=> /\ q.obs[2 * i - 1].reserved # "recent"
                                        /\ q.obs[2 * i].reserved # "recent")

\* An event with a new identity key whose content key is held: a duplicate.
C3_Witness ==
    \E r \in DOMAIN req : Decided(req[r]) /\
        \E i \in Items(req[r]) :
            /\ Answered(req[r], i)
            /\ req[r].results[2 * i - 1] = "OK"
            /\ req[r].results[2 * i] = "NIL"
            /\ req[r].flags[i]

SameIdentity(q1, i, q2, j) ==
    q1.scope = q2.scope /\ q1.items[i].id = q2.items[j].id

\* C4: whatever the interleaving of the commands of two requests in flight,
\* no two of them accept an event with the same (scope, identifier) while
\* the identity key is unexpired and no command errors.
C4_AtMostOneAccepts ==
    \A r1, r2 \in DOMAIN req :
        (r1 # r2 /\ Decided(req[r1]) /\ Decided(req[r2])) =>
            \A i \in Items(req[r1]), j \in Items(req[r2]) :
                SameIdentity(req[r1], i, req[r2], j)
                    => ~(~req[r1].flags[i] /\ ~req[r2].flags[j])

\* Two requests whose commands were interleaved (each lost a key to the
\* other), one of which accepted the event the other was refused.
C4_Witness ==
    \E r1, r2 \in DOMAIN req :
        /\ r1 # r2 /\ Decided(req[r1]) /\ Decided(req[r2])
        /\ \E i \in Items(req[r1]), j \in Items(req[r2]) :
              /\ SameIdentity(req[r1], i, req[r2], j)
              /\ ~req[r1].flags[i]
              /\ req[r2].flags[j]
              /\ req[r2].results[2 * j - 1] = "NIL"
        /\ \E c1 \in 1..Len(req[r1].results), c2 \in 1..Len(req[r2].results) :
              /\ requestCommands(req[r1])[c1].key = requestCommands(req[r2])[c2].key
              /\ req[r1].results[c1] = "NIL"
              /\ req[r2].results[c2] = "OK"

\* C5: once the content TTL has elapsed since a content signature was
\* reserved, an event with that content and an identifier that is not held
\* is accepted again.
C5_LapsedContentAcceptedAgain ==
    \A r \in DOMAIN req : Decided(req[r]) =>
        \A i \in Items(req[r]) :
            ( /\ Answered(req[r], i)
              /\ req[r].obs[2 * i].reserved = "lapsed"
              /\ req[r].obs[2 * i - 1].reserved # "recent" )
                => ~req[r].flags[i]

\* The content was reserved, its TTL ran out, and it comes back under an
\* identifier never seen: accepted.
C5_Witness ==
    \E r \in DOMAIN req : Decided(req[r]) /\
        \E i \in Items(req[r]) :
            /\ Answered(req[r], i)
            /\ req[r].obs[2 * i].reserved = "lapsed"
            /\ req[r].obs[2 * i - 1].seen = "never"
            /\ ~req[r].flags[i]

AllDelivered(q) ==
    /\ q.pc = "done"
    /\ Len(q.posts) = Len(q.embeds)
    /\ \A k \in 1..Len(q.posts) : q.posts[k].ok

\* C6: when the pipeline call throws, every valid event of the batch is
\* accepted, and when the deliveries succeed the response is the success
\* summary with duplicates = 0.
C6_ThrowFailsOpen ==
    \A r \in DOMAIN req : req[r].fault = "throw" =>
        /\ Decided(req[r])
        /\ \A i \in Items(req[r]) : ~req[r].flags[i]
        /\ AllDelivered(req[r]) =>
              req[r].response = summaryResponse(Len(req[r].items), Len(req[r].items), 0)

\* The call threw after the store had refused a key: the event is accepted
\* all the same and the request succeeds.
C6_Witness ==
    \E r \in DOMAIN req :
        /\ req[r].fault = "throw"
        /\ AllDelivered(req[r])
        /\ req[r].response.status = 200
        /\ \E c \in 1..Len(req[r].results) : req[r].results[c] = "NIL"

ItemErrored(q, i) ==
    errored(ResultAt(q.results, 2 * i - 1)) \/ errored(ResultAt(q.results, 2 * i))

\* C7: an event one of whose two commands reports an error is accepted
\* whatever the other command returned, and every other event of the batch
\* is still decided from its own two results.
C7_CommandErrorFailsOpen ==
    \A r \in DOMAIN req : (Decided(req[r]) /\ req[r].fault # "throw") =>
        \A i \in Items(req[r]) : ItemErrored(req[r], i) =>
            /\ ~req[r].flags[i]
            /\ \A j \in Items(req[r]) : ~ItemErrored(req[r], j) =>
                  (req[r].flags[j] <=> ~(/\ ResultAt(req[r].results, 2 * j - 1) = "OK"
                                         /\ ResultAt(req[r].results, 2 * j) = "OK"))

\* The first event's identity command errored while its content key was
\* held: accepted; the second event is a duplicate by its own results.
C7_Witness ==
    \E r \in DOMAIN req :
        /\ Decided(req[r]) /\ req[r].fault = "none"
        /\ Len(req[r].items) = 2
        /\ req[r].results[1] = "ERR" /\ req[r].results[2] = "NIL"
        /\ ~req[r].flags[1]
        /\ ~ItemErrored(req[r], 2) /\ req[r].flags[2]

\* The store's reply is faulty for item i: the call threw, one of the item's
\* commands errored, the body was no list, or it held fewer than two results
\* for the item.
FaultyFor(q, i) ==
    \/ q.fault = "throw"
    \/ q.fault = "notalist"
    \/ ItemErrored(q, i)
    \/ Len(q.results) < 2 * i

\* C8: every store-side fault degrades toward acceptance: an event for which
\* the store's reply is faulty is accepted, never marked duplicate.
C8_EveryStoreFaultFailsOpen ==
    \A r \in DOMAIN req : Decided(req[r]) =>
        \A i \in Items(req[r]) : FaultyFor(req[r], i) => ~req[r].flags[i]

\* C9: outbound units go to the sink one at a time in chunk order: the k-th
\* delivery made is of unit k, every delivery but the last made succeeded, so
\* nothing is attempted after a failure.
C9_SequentialInOrderStopAtFailure ==
    \A r \in DOMAIN req :
        /\ Len(req[r].posts) <= Len(req[r].embeds)
        /\ \A k \in 1..Len(req[r].posts) :
              /\ req[r].posts[k].embed = req[r].embeds[k]
              /\ k < Len(req[r].posts) => req[r].posts[k].ok
        /\ (Len(req[r].posts) > 0 /\ ~req[r].posts[Len(req[r].posts)].ok)
              => req[r].pc = "done"

\* Three units, the second delivery failed: the third was never attempted.
C9_Witness ==
    \E r \in DOMAIN req :
        /\ req[r].pc = "done"
        /\ Len(req[r].embeds) = 3
        /\ Len(req[r].posts) = 2
        /\ req[r].posts[1].ok /\ ~req[r].posts[2].ok

FailedAfter(q, n) ==
    /\ q.pc = "done"
    /\ Len(q.posts) = n + 1
    /\ ~q.posts[n + 1].ok

\* C10: the response to a delivery failure after N of M units were sent
\* (0 < N < M) differs from every response to a total failure (N = 0) and
\* from every response to a total success.
C10_PartialFailureDistinguishable ==
    \A r1, r2 \in DOMAIN req :
        (\E n \in 1..MaxAccepted : FailedAfter(req[r1], n)) =>
            /\ FailedAfter(req[r2], 0) => req[r1].response # req[r2].response
            /\ AllDelivered(req[r2]) => req[r1].response # req[r2].response

\* C11: N accepted events are forwarded as ceil(N / 6) outbound units, each
\* of at least one and at most 6 lines, and unit k (counted from 0) holds the
\* rendered lines k*6 .. (k+1)*6 - 1 of the accepted events, in their order.
C11_ChunksCoverLinesInOrder ==
    \A r \in DOMAIN req : (Decided(req[r]) /\ req[r].embeds # <<>>) =>
        LET q == req[r]
            accepted == acceptedItems(q.items, q.flags)
            N == Len(accepted)
        IN  /\ Len(q.embeds) * ChunkSize >= N
            /\ (Len(q.embeds) - 1) * ChunkSize < N
            /\ \A k \in 1..Len(q.embeds) :
                  LET unit == q.embeds[k].description
                  IN  /\ Len(unit) >= 1 /\ Len(unit) <= ChunkSize
                      /\ \A j \in 1..Len(unit) :
                            /\ (k - 1) * ChunkSize + j <= N
                            /\ unit[j] = renderLine(accepted[(k - 1) * ChunkSize + j])
            /\ \A n \in 1..N :
                  q.embeds[((n - 1) \div ChunkSize) + 1].description[((n - 1) % ChunkSize) + 1]
                      = renderLine(accepted[n])

\* Thirteen accepted events: three units, of 6, 6 and 1 lines.
C11_Witness ==
    \E r \in DOMAIN req :
        /\ Decided(req[r])
        /\ Len(acceptedItems(req[r].items, req[r].flags)) = 2 * ChunkSize + 1
        /\ Len(req[r].embeds) = 3
        /\ Len(req[r].embeds[1].description) = ChunkSize
        /\ Len(req[r].embeds[2].description) = ChunkSize
        /\ Len(req[r].embeds[3].description) = 1

\* No command of the batch found a key that was held before the batch: the
\* store was empty as far as the batch is concerned.
FreshBatch(q) ==
    \A c \in 1..Len(q.obs) :
        (\A b \in 1..(c - 1) : commandIdent(q, b) # commandIdent(q, c))
            => q.obs[c].reserved = "never"

\* Events i and j of a batch share their identity key or their content key.
Shares(q, i, j) ==
    \/ q.items[i].id = q.items[j].id
    \/ contentIdent(q.scope, q.items[i]) = contentIdent(q.scope, q.items[j])

\* C12: in a batch submitted to an empty store that answers every command,
\* an event is accepted iff no earlier event of the batch shares its identity
\* key or its content key: of events that share a key only the first in
\* batch order can be accepted.
C12_FirstOfSharingEventsOnly ==
    \A r \in DOMAIN req :
        (Decided(req[r]) /\ req[r].calls = 1 /\ req[r].fault = "none" /\ FreshBatch(req[r])) =>
            \A j \in Items(req[r]) :
                req[r].flags[j] <=> \E i \in 1..(j - 1) : Shares(req[r], i, j)

\* A batch of three on an empty store: the first is accepted, the second has
\* its identifier and another content, the third another identifier and the
\* content of the second; only the first is accepted.
C12_Witness ==
    \E r \in DOMAIN req :
        /\ Decided(req[r]) /\ req[r].calls = 1 /\ FreshBatch(req[r])
        /\ Len(req[r].items) = 3
        /\ req[r].items[1].id = req[r].items[2].id
        /\ req[r].items[2].id # req[r].items[3].id
        /\ contentIdent(req[r].scope, req[r].items[1]) # contentIdent(req[r].scope, req[r].items[2])
        /\ contentIdent(req[r].scope, req[r].items[2]) = contentIdent(req[r].scope, req[r].items[3])
        /\ req[r].flags = <<FALSE, TRUE, TRUE>>

IsSentinel(m) == m.rank = JsNumber(-2)

Entries(q) == 1..Len(q.raw)

\* C13: an event whose rank is the sentinel -2 is excluded before the dedup
\* step: it is not among the events handed to the dedup engine, no command
\* is issued for it, its line is never forwarded, and it is counted in none
\* of received, accepted and duplicates.
C13_SentinelExcludedBeforeDedup ==
    \A r \in DOMAIN req :
        LET q == req[r]
            others == Cardinality({e \in Entries(q) : ~IsSentinel(q.raw[e])})
        IN  /\ \A i \in Items(q) : ~IsSentinel(q.items[i])
            /\ Len(q.items) <= others
            /\ Len(q.obs) <= 2 * others
            /\ q.response.kind = "summary" =>
                  /\ q.response.received <= others
                  /\ q.response.accepted + q.response.duplicates = q.response.received
            /\ \A e \in Entries(q) : IsSentinel(q.raw[e]) =>
                  /\ \A k \in 1..Len(q.embeds) :
                        \A j \in 1..Len(q.embeds[k].description) :
                            q.embeds[k].description[j] # renderLine(normalizeItem(q.raw[e]))
                  /\ \A c \in 1..Len(q.obs) :
                        (\A i \in Items(q) : q.items[i].id # q.raw[e].id)
                            => commandIdent(q, c) # idIdent(q.scope, normalizeItem(q.raw[e]))

\* A sentinel event ahead of a valid one: one event received, two commands,
\* one line forwarded.
C13_Witness ==
    \E r \in DOMAIN req :
        /\ req[r].pc = "done"
        /\ Len(req[r].raw) = 2
        /\ IsSentinel(req[r].raw[1]) /\ ~IsSentinel(req[r].raw[2])
        /\ req[r].response = summaryResponse(1, 1, 0)
        /\ Len(req[r].obs) = 2
        /\ Len(req[r].posts) = 1 /\ Len(req[r].posts[1].embed.description) = 1

\* An entry without identifier, or whose message holds nothing but spaces.
IsInvalid(m) ==
    \/ m.id = Null
    \/ m.message = Null
    \/ \A p \in 1..Len(m.message) : m.message[p] = " "

\* An entry within the cap that is neither invalid nor a sentinel.
Survives(q, e) ==
    e <= BodyCap /\ ~IsInvalid(q.raw[e]) /\ ~IsSentinel(q.raw[e])

\* C14: an event without identifier, or whose message is empty once trimmed,
\* never reaches the dedup engine (it is not among the events handed to it
\* and no command is issued for it), and the batch does not fail for it as
\* long as another event is valid.
C14_InvalidDroppedWithoutFailingBatch ==
    \A r \in DOMAIN req :
        LET q == req[r]
            valid == Cardinality({e \in Entries(q) : ~IsInvalid(q.raw[e])})
        IN  /\ \A i \in Items(q) : q.items[i].id # Null /\ q.items[i].message # EmptyStr
            /\ Len(q.items) <= valid
            /\ Len(q.obs) <= 2 * valid
            /\ \A e \in Entries(q) :
                  (IsInvalid(q.raw[e]) /\ \A i \in Items(q) : q.items[i].id # q.raw[e].id) =>
                      \A c \in 1..Len(q.obs) :
                          commandIdent(q, c) # idIdent(q.scope, q.raw[e])
            /\ (q.pc = "done" /\ \E e \in Entries(q) : Survives(q, e)) =>
                  /\ q.response.status # 400
                  /\ Decided(q)
                  /\ AllDelivered(q) =>
                        q.response.received = Cardinality({e \in Entries(q) : Survives(q, e)})

\* An entry without identifier ahead of a valid event: the valid event is
\* received, accepted and forwarded.
C14_Witness ==
    \E r \in DOMAIN req :
        /\ req[r].pc = "done"
        /\ Len(req[r].raw) = 2
        /\ req[r].raw[1].id = Null
        /\ Survives(req[r], 2)
        /\ Len(req[r].obs) = 2
        /\ AllDelivered(req[r])
        /\ req[r].response = summaryResponse(1, 1, 0)

NoSurvivor(q) == ~\E e \in Entries(q) : Survives(q, e)

\* C15: a batch of which no event survives normalization and sentinel
\* exclusion is answered with the validation error, without a call to the
\* store and without a delivery to the sink; a batch of which an event
\* survives is never answered so, and goes on to the dedup step.
C15_EmptyAfterFilteringRejected ==
    \A r \in DOMAIN req : req[r].pc # "idle" =>
        LET q == req[r]
        IN  /\ NoSurvivor(q) =>
                  /\ q.pc = "done"
                  /\ q.response = errorResponse(400, "No valid messages found in body.")
                  /\ q.calls = 0 /\ q.obs = <<>>
                  /\ q.embeds = <<>> /\ q.posts = <<>>
            /\ ~NoSurvivor(q) =>
                  /\ q.response.status # 400
                  /\ q.calls = 1

\* A sentinel event and an entry with a blank message: rejected, nothing
\* called.
C15_Witness ==
    \E r \in DOMAIN req :
        /\ req[r].pc = "done"
        /\ Len(req[r].raw) = 2
        /\ IsSentinel(req[r].raw[1]) /\ IsInvalid(req[r].raw[2])
        /\ req[r].response.status = 400
        /\ req[r].calls = 0 /\ req[r].posts = <<>>

SinkMissing == ~env.channelId \/ ~env.botToken

HasAccepted(q) == Decided(q) /\ \E i \in Items(q) : ~q.flags[i]

\* C16 as stated: when the sink's destination or credential is missing, the
\* request fails, and no delivery is attempted.
C16_Original ==
    SinkMissing =>
        \A r \in DOMAIN req :
            /\ req[r].posts = <<>>
            /\ req[r].pc = "done" => req[r].response.kind = "error"

\* C16 as amended: when the sink's destination or credential is missing, no
\* delivery is ever attempted, and a request with at least one accepted
\* event fails, with status 502 and the generic error.
C16_MissingSinkFailsAcceptedBeforeDelivery ==
    SinkMissing =>
        \A r \in DOMAIN req :
            /\ req[r].posts = <<>>
            /\ req[r].pc # "sink"
            /\ HasAccepted(req[r]) =>
                  /\ req[r].pc = "done"
                  /\ req[r].response = errorResponse(BadGateway, "Unknown error")

\* The destination is set and the credential is not: the event was accepted
\* by the dedup step, and the request failed with nothing sent.
C16_Witness ==
    /\ env.channelId /\ ~env.botToken
    /\ \E r \in DOMAIN req :
          /\ HasAccepted(req[r])
          /\ req[r].embeds # <<>> /\ req[r].posts = <<>>
          /\ req[r].response.status = BadGateway

\* The request reserved keys, then failed at the sink (configuration or
\* delivery) without any of its units delivered.
FailedUndelivered(q) ==
    /\ q.pc = "done"
    /\ HasAccepted(q)
    /\ q.response.kind = "error"
    /\ \A k \in 1..Len(q.posts) : ~q.posts[k].ok

SameEvent(q1, i, q2, j) ==
    /\ SameIdentity(q1, i, q2, j)
    /\ contentIdent(q1.scope, q1.items[i]) = contentIdent(q2.scope, q2.items[j])

\* C18: a failure after the dedup round trip (sink not configured, or a
\* delivery that fails) leaves the request's reservations in place: each key
\* it reserved is held until its TTL runs out, and the same event submitted
\* again within the TTLs is judged a duplicate although it was never
\* delivered.
C18_ReservationsSurviveFailure ==
    \A r1 \in DOMAIN req : FailedUndelivered(req[r1]) =>
        /\ \A c \in 1..Len(req[r1].results) :
              (req[r1].results[c] = "OK" /\ Since(age, commandIdent(req[r1], c)) = "recent")
                  => Held(store, requestCommands(req[r1])[c].key)
        /\ \A r2 \in DOMAIN req \ {r1} : Decided(req[r2]) =>
              \A i \in Items(req[r1]), j \in Items(req[r2]) :
                  ( /\ SameEvent(req[r1], i, req[r2], j)
                    /\ ~req[r1].flags[i]
                    /\ Answered(req[r2], j)
                    /\ \/ req[r2].obs[2 * j - 1].reserved = "recent"
                       \/ req[r2].obs[2 * j].reserved = "recent" )
                      => req[r2].flags[j]

\* The delivery of an accepted event failed; the same event, submitted
\* again, found both keys held and is reported a duplicate.
C18_Witness ==
    \E r1, r2 \in DOMAIN req :
        /\ r1 # r2
        /\ FailedUndelivered(req[r1])
        /\ req[r1].results = <<"OK", "OK">>
        /\ Len(req[r1].posts) = 1
        /\ req[r2].pc = "done"
        /\ SameEvent(req[r1], 1, req[r2], 1)
        /\ req[r2].results = <<"NIL", "NIL">>
        /\ req[r2].response = summaryResponse(1, 0, 1)

\* The response to a failed delivery carries what the sink reported.
SurfacesFailure(q) ==
    (q.pc = "done" /\ Len(q.posts) > 0 /\ ~q.posts[Len(q.posts)].ok) =>
        LET failure == q.posts[Len(q.posts)]
        IN  /\ q.response.kind = "error"
            /\ q.response.status = (IF failure.status # 0 THEN failure.status ELSE BadGateway)
            /\ q.response.error = (IF failure.data # "" THEN failure.data ELSE "Unknown error")
            /\ \A k \in 1..(Len(q.posts) - 1) : q.posts[k].ok /\ q.posts[k].embed = q.embeds[k]

\* A step of a request keeps the deliveries made (none is undone), adds at
\* most one, and adds none once a delivery has failed (none is made again).
KeepsDeliveries(q, qn) ==
    \/ qn = q
    \/ q.pc = "done" /\ qn = IdleReq
    \/ /\ Len(qn.posts) <= Len(q.posts) + 1
       /\ SubSeq(qn.posts, 1, Len(q.posts)) = q.posts
       /\ (Len(q.posts) > 0 /\ ~q.posts[Len(q.posts)].ok) => qn.posts = q.posts

\* C17: when the delivery of a unit fails, the response carries the status
\* and the error payload the sink reported (502 when it reported no status,
\* the generic error when it reported no payload), and the units delivered
\* before stay delivered: none is sent again and none is undone.
C17_FailureSurfacedNoRetryNoRollback ==
    /\ [](\A r \in DOMAIN req : SurfacesFailure(req[r]))
    /\ [][\A r \in DOMAIN req : KeepsDeliveries(req[r], req'[r])]_vars

\* Two units delivered, the third refused with status 429: the response is
\* the sink's status and payload.
C17_Witness ==
    \E r \in DOMAIN req :
        /\ req[r].pc = "done"
        /\ Len(req[r].posts) = 3
        /\ req[r].posts[1].ok /\ req[r].posts[2].ok
        /\ req[r].posts[3] = [embed |-> req[r].embeds[3], ok |-> FALSE,
                               status |-> 429, data |-> "rate limited"]
        /\ req[r].response = errorResponse(429, "rate limited")

\* C19: a request that reaches the dedup step makes one call to the store,
\* no request makes more, and the call carries 2N commands for its N events:
\* command 2i reserves the identity key of event i (counted from 0) with the
\* identity TTL, command 2i + 1 its content key with the content TTL, and the
\* store executes no command that is not of the call.
C19_OneCallTwoCommandsPerEvent ==
    \A r \in DOMAIN req :
        LET q == req[r]
            commands == requestCommands(q)
        IN  /\ q.calls <= 1
            /\ (q.pc # "idle" /\ ~NoSurvivor(q)) => q.calls = 1
            /\ q.calls = 0 => q.obs = <<>>
            /\ q.calls = 1 =>
                  /\ Len(commands) = 2 * Len(q.items)
                  /\ Len(q.obs) <= Len(commands)
                  /\ \A i \in Items(q) :
                        /\ commands[2 * i - 1] =
                              [key |-> idKey(q.scope, q.items[i]), ex |-> IdTtlSec, nx |-> TRUE]
                        /\ commands[2 * i] =
                              [key |-> contentKey(q.scope, q.items[i]), ex |-> ContentTtlSec,
                               nx |-> TRUE]

\* A batch of three events answered after one call of six commands.
C19_Witness ==
    \E r \in DOMAIN req :
        /\ Decided(req[r])
        /\ req[r].calls = 1
        /\ Len(req[r].items) = 3
        /\ Len(requestCommands(req[r])) = 6
        /\ Len(req[r].obs) = 6

\* Entry e lies beyond the cap and shares its identifier with no entry
\* within it.
BeyondCap(q, e) ==
    /\ e > BodyCap
    /\ q.raw[e].id # Null
    /\ \A f \in Entries(q) : f <= BodyCap => q.raw[f].id # q.raw[e].id

\* C20: only the first 50 entries of the body are considered: the events
\* handed to the dedup engine and counted as received are the surviving
\* entries among the first 50, and an entry at position 50 or later (counted
\* from 0) is not normalized, has no command issued for it and no line
\* forwarded, even when entries before it were dropped as invalid.
C20_OnlyFirstFiftyConsidered ==
    \A r \in DOMAIN req : req[r].pc # "idle" =>
        LET q == req[r]
            kept == Cardinality({e \in Entries(q) : Survives(q, e)})
        IN  /\ Len(q.items) <= kept
            /\ Len(q.obs) <= 2 * kept
            /\ q.response.kind = "summary" => q.response.received = kept
            /\ \A e \in Entries(q) : BeyondCap(q, e) =>
                  /\ \A i \in Items(q) : q.items[i].id # q.raw[e].id
                  /\ \A c \in 1..Len(q.obs) :
                        commandIdent(q, c) # idIdent(q.scope, q.raw[e])
                  /\ \A k \in 1..Len(q.embeds) :
                        \A j \in 1..Len(q.embeds[k].description) :
                            q.embeds[k].description[j].message # trim(toSafeString(q.raw[e].message))

\* Forty-nine dropped entries, a valid event at position 49 and another at
\* position 50: one event received and forwarded.
C20_Witness ==
    \E r \in DOMAIN req :
        /\ req[r].pc = "done"
        /\ Len(req[r].raw) = BodyCap + 1
        /\ \A e \in 1..(BodyCap - 1) : IsInvalid(req[r].raw[e])
        /\ Survives(req[r], BodyCap)
        /\ BeyondCap(req[r], BodyCap + 1) /\ ~IsInvalid(req[r].raw[BodyCap + 1])
        /\ AllDelivered(req[r])
        /\ req[r].response = summaryResponse(1, 1, 0)

\* Request r of api/incoming.js takes its dedup step.
Judged(r) ==
    /\ proc.inc[r].pc = "parsing" /\ proc.inc[r].text # ""
    /\ proc'.inc[r].pc # "parsing"

\* C21: the in-process deduplicator judges an event a duplicate iff
\* now - lastSeen(text) < window, a text never seen being accepted; when it
\* accepts it records lastSeen(text) = now, and when it judges a duplicate it
\* leaves the map as it was.
C21_FallbackDecisionRule ==
    [][\A r \in IncReqs : Judged(r) =>
          LET text == proc.inc[r].text
              known == text \in DOMAIN proc.seen
              fresh == known /\ proc.now - proc.seen[text] < DEDUP_WINDOW
              verdict == proc'.inc[r].verdict
          IN  /\ verdict = (IF fresh THEN "duplicate" ELSE "accepted")
              /\ ~known => verdict = "accepted"
              /\ verdict = "duplicate" => proc'.seen = proc.seen
              /\ verdict = "accepted" =>
                    /\ text \in DOMAIN proc'.seen
                    /\ proc'.seen[text] = proc.now]_vars

\* A text seen one millisecond less than the window ago: a duplicate, and
\* the map still holds the time of its acceptance.
C21_Witness ==
    \E r \in IncReqs :
        /\ proc.inc[r].verdict = "duplicate"
        /\ proc.inc[r].now - proc.inc[r].last = DEDUP_WINDOW - 1
        /\ proc.seen[proc.inc[r].text] = proc.inc[r].last

Accepted(q) == q.verdict = "accepted"

\* C22: the lookup, the insertion and the pruning of a request are one step
\* of the process, so however the requests it handles interleave, two
\* requests with the same text judged less than the window apart are never
\* both accepted, and the entry of an accepted request stays in the map for
\* as long as the window lasts, whichever request prunes the map.
C22_FallbackSerialized ==
    /\ \A r1, r2 \in IncReqs :
          ( /\ r1 # r2
            /\ Accepted(proc.inc[r1]) /\ Accepted(proc.inc[r2])
            /\ proc.inc[r1].text = proc.inc[r2].text )
              => \/ proc.inc[r1].now - proc.inc[r2].now >= DEDUP_WINDOW
                 \/ proc.inc[r2].now - proc.inc[r1].now >= DEDUP_WINDOW
    /\ \A r \in IncReqs :
          (Accepted(proc.inc[r]) /\ proc.now - proc.inc[r].now <= DEDUP_WINDOW)
              => /\ proc.inc[r].text \in DOMAIN proc.seen
                 /\ proc.seen[proc.inc[r].text] >= proc.inc[r].now

\* While an accepted request is still forwarding, a second request with its
\* text is judged a duplicate on the entry it set; the map holds the entry
\* of another text as well.
C22_Witness ==
    \E r1, r2 \in IncReqs :
        /\ r1 # r2
        /\ Accepted(proc.inc[r1]) /\ proc.inc[r1].pc = "forward"
        /\ proc.inc[r2].verdict = "duplicate"
        /\ proc.inc[r2].text = proc.inc[r1].text
        /\ proc.inc[r2].last = proc.inc[r1].now
        /\ Cardinality(DOMAIN proc.seen) = 2

\* The timestamp of the entry without the spaces around it.
Core(ts) ==
    LET solid == {p \in 1..Len(ts) : ts[p] # " "}
    IN  IF ts = Null \/ solid = {} THEN EmptyStr
        ELSE SubSeq(ts, CHOOSE p \in solid : \A x \in solid : p <= x,
                        CHOOSE p \in solid : \A x \in solid : x <= p)

\* The "." that opens the sub-second fraction of c (0 when it has none) and
\* the last digit of the fraction.
FractionDot(c) ==
    IF \E p \in 1..(Len(c) - 1) : c[p] = "." /\ IsDigit(c[p + 1])
    THEN CHOOSE p \in 1..(Len(c) - 1) : c[p] = "." /\ IsDigit(c[p + 1])
    ELSE 0

FractionEnd(c) ==
    CHOOSE e \in FractionDot(c)..Len(c) :
        /\ \A k \in (FractionDot(c) + 1)..e : IsDigit(c[k])
        /\ e = Len(c) \/ ~IsDigit(c[e + 1])

ThreeDigits(d) == [i \in 1..3 |-> IF i <= Len(d) THEN d[i] ELSE "0"]

\* c with its fraction cut or zero-padded to three digits.
ToMillis(c) ==
    SubSeq(c, 1, FractionDot(c))
        \o ThreeDigits(SubSeq(c, FractionDot(c) + 1, FractionEnd(c)))
        \o SubSeq(c, FractionEnd(c) + 1, Len(c))

\* A request of one event that was normalized.
Stamp(q) == q.pc # "idle" /\ Len(q.raw) = 1 /\ Len(q.items) = 1

\* C25 as stated: the fraction of a timestamp is cut or zero-padded to three
\* digits, a timestamp without fraction is kept, and an absent timestamp
\* (null, undefined, blank) becomes the empty string.
C25_Original ==
    \A r \in DOMAIN req : Stamp(req[r]) =>
        LET c == Core(req[r].raw[1].timestamp)
        IN  req[r].items[1].timestamp =
                (IF c = EmptyStr THEN EmptyStr
                 ELSE IF FractionDot(c) = 0 THEN c ELSE ToMillis(c))

\* C25 as amended: the fraction of a timestamp that ends with the fraction
\* followed by "Z" is cut or zero-padded to three digits; any other
\* timestamp (without fraction, or whose fraction is not followed by a final
\* "Z") is kept, trimmed; an absent timestamp becomes the empty string.
C25_FractionBeforeFinalZToMillis ==
    \A r \in DOMAIN req : Stamp(req[r]) =>
        LET c == Core(req[r].raw[1].timestamp)
        IN  req[r].items[1].timestamp =
                (IF c = EmptyStr THEN EmptyStr
                 ELSE IF FractionDot(c) # 0 /\ FractionEnd(c) = Len(c) - 1 /\ c[Len(c)] = "Z"
                      THEN ToMillis(c)
                      ELSE c)

\* A fraction of five digits before the final "Z" came out with three, and
\* the spaces around the timestamp are gone.
C25_Witness ==
    \E r \in DOMAIN req :
        /\ Stamp(req[r])
        /\ req[r].raw[1].timestamp = <<" ", "T", ".", "1", "2", "3", "4", "5", "Z", " ">>
        /\ req[r].items[1].timestamp = <<"T", ".", "1", "2", "3", "Z">>

\* C23: dedup keys are isolated by scope: the identity and content keys of
\* events of different scopes differ, whatever their identifiers and
\* contents, and an event neither of whose keys was reserved under its own
\* scope is accepted, whatever was reserved under another scope.
C23_KeysIsolatedByScope ==
    /\ \A r1, r2 \in DOMAIN req :
          (req[r1].calls = 1 /\ req[r2].calls = 1 /\ req[r1].scope # req[r2].scope) =>
              \A i \in Items(req[r1]), j \in Items(req[r2]) :
                  /\ idKey(req[r1].scope, req[r1].items[i]) # idKey(req[r2].scope, req[r2].items[j])
                  /\ contentKey(req[r1].scope, req[r1].items[i])
                        # contentKey(req[r2].scope, req[r2].items[j])
    /\ \A r \in DOMAIN req : Decided(req[r]) =>
          \A i \in Items(req[r]) :
              ( /\ Answered(req[r], i)
                /\ req[r].obs[2 * i - 1].reserved = "never"
                /\ req[r].obs[2 * i].reserved = "never" )
                  => ~req[r].flags[i]

\* The same event under two scopes: both accepted, four keys held.
C23_Witness ==
    \E r1, r2 \in DOMAIN req :
        /\ Decided(req[r1]) /\ Decided(req[r2])
        /\ req[r1].scope # req[r2].scope
        /\ req[r1].raw = req[r2].raw
        /\ ~req[r1].flags[1] /\ ~req[r2].flags[1]
        /\ Cardinality(DOMAIN store) = 4

\* The events of the request decided as new.
NewOnes(q) == {i \in Items(q) : ~q.flags[i]}

\* The positions (unit, line) of the lines built for the sink.
LinePositions(q) ==
    {pos \in (1..Len(q.embeds)) \X (1..ChunkSize) :
        pos[2] <= Len(q.embeds[pos[1]].description)}

\* The n-th line built for the sink, units taken in order.
LineAt(q, n) ==
    q.embeds[((n - 1) \div ChunkSize) + 1].description[((n - 1) % ChunkSize) + 1]

\* C24: the lines built for the sink are those of the events decided as new,
\* one line per event, in the order of the batch (the n-th line is that of
\* the n-th new event); an event decided duplicate has no line; and what is
\* sent to the sink is these units, in order.
C24_ForwardedAreTheNewInOrder ==
    \A r \in DOMAIN req : Decided(req[r]) =>
        LET q == req[r]
        IN  /\ Cardinality(LinePositions(q)) = Cardinality(NewOnes(q))
            /\ \A i \in NewOnes(q) :
                  LineAt(q, Cardinality({j \in NewOnes(q) : j <= i})) = renderLine(q.items[i])
            /\ Len(q.posts) <= Len(q.embeds)
            /\ \A k \in 1..Len(q.posts) : q.posts[k].embed = q.embeds[k]
            /\ (q.pc = "done" /\ q.response.kind = "summary") =>
                  /\ Len(q.posts) = Len(q.embeds)
                  /\ \A k \in 1..Len(q.posts) : q.posts[k].ok

\* A batch of three whose second event is a duplicate: two lines delivered,
\* of the first and of the third event.
C24_Witness ==
    \E r \in DOMAIN req :
        /\ Decided(req[r])
        /\ req[r].flags = <<FALSE, TRUE, FALSE>>
        /\ AllDelivered(req[r])
        /\ Len(req[r].posts) = 1
        /\ req[r].posts[1].embed.description =
              <<renderLine(req[r].items[1]), renderLine(req[r].items[3])>>

\* Requests r1 and r2 each carry one event, the same, and the store had
\* neither of its keys when the first of their commands ran: each key was
\* granted to one of the two.
SameUnseenEvent(r1, r2) ==
    /\ r1 # r2
    /\ Decided(req[r1]) /\ Decided(req[r2])
    /\ Len(req[r1].items) = 1 /\ Len(req[r2].items) = 1
    /\ SameEvent(req[r1], 1, req[r2], 1)
    /\ req[r1].results[1] = "OK" \/ req[r2].results[1] = "OK"
    /\ req[r1].results[2] = "OK" \/ req[r2].results[2] = "OK"

\* C26: when two concurrent requests each carry the same event, not seen
\* before, and no command errors, at least one of them accepts it, however
\* their reservation commands interleave.
C26_AtLeastOneAccepts ==
    \A r1, r2 \in DOMAIN req :
        SameUnseenEvent(r1, r2) => (~req[r1].flags[1] \/ ~req[r2].flags[1])

\* C27 as stated: an event judged a duplicate leaves the store unchanged:
\* neither of its commands reserved a key.
C27_Original ==
    \A r \in DOMAIN req : Decided(req[r]) =>
        \A i \in Items(req[r]) :
            (Answered(req[r], i) /\ req[r].flags[i]) =>
                /\ req[r].results[2 * i - 1] # "OK"
                /\ req[r].results[2 * i] # "OK"

\* C27 as amended: a command on a key that is held is refused and does not
\* renew it (the time left on a held key always counts from its
\* reservation), but a duplicate does reserve the one of its two keys that
\* was free.
C27_DuplicateReservesFreeKeyOnly ==
    \A r \in DOMAIN req :
        LET q == req[r]
            commands == requestCommands(q)
        IN  /\ \A c \in 1..Len(q.obs) :
                  LET key == commands[c].key
                      ident == commandIdent(q, c)
                  IN  /\ Held(store, key) => store[key] + age[ident] = IdentCap(ident)
                      /\ (Decided(q) /\ q.obs[c].reserved = "recent") => q.results[c] = "NIL"
            /\ Decided(q) =>
                  \A i \in Items(q) : (Answered(q, i) /\ q.flags[i]) =>
                      /\ q.obs[2 * i - 1].reserved # "recent" => q.results[2 * i - 1] = "OK"
                      /\ q.obs[2 * i].reserved # "recent" => q.results[2 * i] = "OK"

\* A duplicate by its identifier whose content was new: it was refused the
\* identity key and reserved the content key, which is now held.
C27_Witness ==
    \E r \in DOMAIN req : Decided(req[r]) /\
        \E i \in Items(req[r]) :
            /\ Answered(req[r], i)
            /\ req[r].flags[i]
            /\ req[r].results[2 * i - 1] = "NIL"
            /\ req[r].results[2 * i] = "OK"
            /\ req[r].obs[2 * i].reserved = "never"
            /\ Held(store, contentKey(req[r].scope, req[r].items[i]))


\* The dedup engine has returned to the handler of this request.
Returned(q) == q.pc \in {"sink", "done"} /\ Len(q.items) > 0

\* What the store answered to command c of the request: "UNDEF" when the
\* reply has no such entry.
Answer(q, c) == IF c \in DOMAIN q.results THEN q.results[c] ELSE "UNDEF"

\* The decision owed to item i: new when the call threw or one of the item's
\* two commands errored, otherwise duplicate unless both were reserved.
Owed(q, i) ==
    IF q.fault = "throw" THEN FALSE
    ELSE IF "ERR" \in {Answer(q, 2 * i - 1), Answer(q, 2 * i)} THEN FALSE
    ELSE ~(Answer(q, 2 * i - 1) = "OK" /\ Answer(q, 2 * i) = "OK")

\* C28: dedupeMessagesAtomic returns exactly one decision per input event, in
\* input order, whatever the store replies: success, per-command errors, a
\* short or non-list reply, or a thrown error. The decision at position i is
\* the one owed to item i.
C28_OneDecisionPerEventInOrder ==
    \A r \in DOMAIN req : Returned(req[r]) =>
        /\ DOMAIN req[r].flags = DOMAIN req[r].items
        /\ \A i \in Items(req[r]) : req[r].flags[i] = Owed(req[r], i)

\* A batch of two events whose reply was cut short of the second event's
\* results: the first is new and the second has its decision all the same.
C28_Witness ==
    \E r \in DOMAIN req :
        /\ Returned(req[r])
        /\ req[r].fault = "short"
        /\ Len(req[r].items) = 2
        /\ Len(req[r].results) = 2
        /\ req[r].flags = <<FALSE, TRUE>>


\* C29: in every success response, received is the number of valid
\* non-sentinel events among the first 50 entries of the body, accepted the
\* number of them judged new and duplicates the number judged duplicate, so
\* that received = accepted + duplicates.
C29_ReceivedIsAcceptedPlusDuplicates ==
    \A r \in DOMAIN req : req[r].response.kind = "summary" =>
        LET q == req[r]
            answer == q.response
        IN  /\ answer.status = 200
            /\ answer.received = Cardinality({e \in Entries(q) : Survives(q, e)})
            /\ answer.accepted = Cardinality(NewOnes(q))
            /\ answer.duplicates = Cardinality(Items(q) \ NewOnes(q))
            /\ answer.received = answer.accepted + answer.duplicates

\* A success response to a body with a dropped entry, a new event and a
\* duplicate one.
C29_Witness ==
    \E r \in DOMAIN req :
        /\ req[r].response.kind = "summary"
        /\ \E e \in Entries(req[r]) : ~Survives(req[r], e)
        /\ req[r].response.received = 2
        /\ req[r].response.accepted = 1
        /\ req[r].response.duplicates = 1


\* Every event handed to the dedup engine was judged a duplicate.
AllDuplicates(q) == Decided(q) /\ \A i \in Items(q) : q.flags[i]

\* C30: when every valid event of a batch is a duplicate, no unit is built
\* and no delivery to the sink is attempted, the sink's configuration is not
\* checked (the request succeeds even when the destination or the credential
\* is missing), and the request returns success with accepted = 0 and
\* duplicates = received.
C30_AllDuplicatesSucceedWithoutSink ==
    \A r \in DOMAIN req : AllDuplicates(req[r]) =>
        /\ req[r].pc = "done"
        /\ req[r].embeds = <<>>
        /\ req[r].posts = <<>>
        /\ req[r].response.kind = "summary"
        /\ req[r].response.status = 200
        /\ req[r].response.accepted = 0
        /\ req[r].response.received = Len(req[r].items)
        /\ req[r].response.duplicates = req[r].response.received

\* A batch whose only event is a duplicate, answered with success while the
\* sink has no credential.
C30_Witness ==
    /\ SinkMissing
    /\ \E r \in DOMAIN req :
          /\ AllDuplicates(req[r])
          /\ req[r].results = <<"NIL", "NIL">>
          /\ req[r].response.status = 200
          /\ req[r].response.duplicates = 1


\* C31: after every accepting insertion at time now in the in-process
\* fallback, each entry remaining in the map satisfies now - lastSeen <=
\* window, so that the map then holds only texts accepted within the last
\* window (the text just accepted among them); a duplicate decision performs
\* no sweep, whatever the age of the entries the map holds.
C31_SweepOnAcceptOnly ==
    [][\A r \in IncReqs : Judged(r) =>
          /\ proc'.inc[r].verdict = "accepted" =>
                /\ \A t \in DOMAIN proc'.seen :
                      /\ proc.now - proc'.seen[t] <= DEDUP_WINDOW
                      /\ t = proc.inc[r].text \/
                            (t \in DOMAIN proc.seen /\ proc'.seen[t] = proc.seen[t])
                /\ \A t \in DOMAIN proc.seen :
                      (t # proc.inc[r].text /\ proc.now - proc.seen[t] <= DEDUP_WINDOW)
                          => t \in DOMAIN proc'.seen
          /\ proc'.inc[r].verdict = "duplicate" => proc'.seen = proc.seen]_vars

\* A request is accepted more than a window after another one that is still
\* in flight: the sweep drops the older entry and leaves the new one alone.
C31_Witness ==
    \E r1, r2 \in IncReqs :
        /\ Accepted(proc.inc[r1]) /\ Accepted(proc.inc[r2])
        /\ proc.inc[r1].text # proc.inc[r2].text
        /\ proc.inc[r2].now - proc.inc[r1].now > DEDUP_WINDOW
        /\ proc.now = proc.inc[r2].now
        /\ DOMAIN proc.seen = {proc.inc[r2].text}


\* C32: with a clock that never goes back, the sweep never changes a
\* decision: the decision of every request is the one the same rule makes
\* over a map that is never pruned, and the two maps agree on every text the
\* pruned one still holds.
C32_SweepChangesNoDecision ==
    /\ \A r \in IncReqs : proc.inc[r].verdict = proc.inc[r].ideal
    /\ \A t \in DOMAIN proc.seen :
          t \in DOMAIN proc.unpruned /\ proc.unpruned[t] = proc.seen[t]

\* A text whose entry was swept is submitted again: the pruned map reads no
\* entry, the unpruned one an entry older than the window, and both accept.
C32_Witness ==
    \E r \in IncReqs :
        /\ Accepted(proc.inc[r])
        /\ proc.inc[r].ideal = "accepted"
        /\ proc.inc[r].last = 0
        /\ proc.inc[r].idealLast > 0
        /\ proc.inc[r].now - proc.inc[r].idealLast > DEDUP_WINDOW


\* The number of lines built for the sink.
LineCount(q) == Cardinality(LinePositions(q))

\* C33: when the store's URL or token is not configured, the dedup engine
\* makes no store call (no command is issued, the store stays as it was) and
\* marks every event as new: a line is built for every valid event, a
\* successful request reports all of them accepted and none duplicate, and a
\* repeated submission is accepted like the first.
C33_UnconfiguredStoreAcceptsAll ==
    ~env.upstash =>
        /\ store = <<>>
        /\ \A r \in DOMAIN req :
              /\ req[r].calls = 0 /\ req[r].results = <<>> /\ req[r].obs = <<>>
              /\ (req[r].pc \in {"sink", "done"} /\ Len(req[r].items) > 0) =>
                    /\ DOMAIN req[r].flags = DOMAIN req[r].items
                    /\ \A i \in Items(req[r]) : ~req[r].flags[i]
                    /\ LineCount(req[r]) = Len(req[r].items)
                    /\ req[r].response.kind = "summary" =>
                          /\ req[r].response.accepted = Len(req[r].items)
                          /\ req[r].response.duplicates = 0
                          /\ AllDelivered(req[r])

\* The same batch submitted twice with no store configured: both requests
\* deliver it whole.
C33_Witness ==
    /\ ~env.upstash
    /\ \E r1, r2 \in DOMAIN req :
          /\ r1 # r2
          /\ req[r1].raw = req[r2].raw
          /\ Len(req[r1].items) = 2
          /\ AllDelivered(req[r1]) /\ AllDelivered(req[r2])
          /\ req[r1].response = [status |-> 200, kind |-> "summary", received |-> 2,
                                  accepted |-> 2, duplicates |-> 0, error |-> ""]
          /\ req[r2].response = req[r1].response


\* The milliseconds since the epoch of the date-times the batches carry, read
\* off the calendar; -1 for a text that is no date.
Moment(ts) ==
    IF ts = IsoStamp(<<"0", "1">>, <<"0", "0", "0">>) THEN 61000
    ELSE IF ts = IsoStamp(<<"0", "4">>, <<"9", "9", "9">>) THEN 64999
    ELSE IF ts = IsoStamp(<<"0", "5">>, <<"0", "0", "0">>) THEN 65000
    ELSE IF Len(ts) = 20 /\ ts[1] = "1" THEN 1000
    ELSE -1

\* floor(ms / bucketMs), and 0 for a timestamp that cannot be parsed.
Bucket(ts) == IF Moment(ts) < 0 THEN 0 ELSE Moment(ts) \div BucketMs

\* When the content command of item i ran, a reservation made for the same
\* content in the same scope and bucket was still running.
ContentHeldInBucket(q, i) ==
    \E k \in q.obs[2 * i].running :
        /\ k.kind = "content"
        /\ k.scope = q.scope
        /\ k.content = contentIdentBucketed(q.scope, q.items[i]).content
        /\ Bucket(k.timestamp) = Bucket(q.items[i].timestamp)

\* C34: in the time-bucket variant, an event whose identifier is not held is
\* a duplicate iff an event of the same normalized content was reserved
\* within the content TTL with a timestamp in the same bucket
\* floor(ms / bucketMs): events of identical content and different
\* identifiers whose timestamps straddle a bucket boundary are both
\* accepted, and every timestamp that cannot be parsed falls in bucket 0.
C34_ContentDedupedWithinBucketOnly ==
    \A r \in DOMAIN req : Decided(req[r]) =>
        \A i \in Items(req[r]) :
            req[r].flags[i] =
                (\/ req[r].obs[2 * i - 1].reserved = "recent"
                 \/ ContentHeldInBucket(req[r], i))

\* One batch of two events of the same content, one millisecond apart on
\* both sides of a bucket boundary: both accepted. The store still held the
\* bucket-0 reservation of an earlier event that had no timestamp.
C34_Witness ==
    \E r \in DOMAIN req :
        /\ Decided(req[r])
        /\ Len(req[r].items) = 2
        /\ Moment(req[r].items[1].timestamp) = 64999
        /\ Moment(req[r].items[2].timestamp) = 65000
        /\ req[r].flags = <<FALSE, FALSE>>
        /\ \E k \in req[r].obs[2].running :
              k.kind = "content" /\ Moment(k.timestamp) < 0


\* The handler of the request has sent a response.
Responded(q) == q.response.kind # "none"

\* The handler of the request is running.
InFlight(q) == q.pc # "idle" /\ ~Responded(q)

\* C35: every POST with an array body eventually produces exactly one
\* response, provided the store call and each sink call eventually return or
\* fail: a request in flight leads to its response, the response is sent
\* where the handler ends and nowhere before, and once sent it is never
\* replaced by another.
C35_ExactlyOneResponseEventually ==
    /\ \A r \in LiveReqs : InFlight(req[r]) ~> Responded(req[r])
    /\ [](\A r \in LiveReqs : Responded(req[r]) <=> req[r].pc = "done")
    /\ [][\A r \in LiveReqs : Responded(req[r]) =>
              (req'[r] = req[r] \/ req'[r] = IdleReq)]_vars

\* A request answered after its store call and two sink calls, the second of
\* which failed.
C35_Witness ==
    \E r \in LiveReqs :
        /\ Responded(req[r])
        /\ req[r].calls = 1
        /\ Len(req[r].embeds) = 2
        /\ Len(req[r].posts) = 2
        /\ ~req[r].posts[2].ok
        /\ req[r].response.kind = "error"

====
